---------------------------- MODULE Spec2Model ----------------------------
(***************************************************************************)
(* Model of the ARP asynchronous reprojection library (src/arp.cpp).       *)
(*                                                                         *)
(* Threads: "main" runs startReprojection (the reprojection loop and the   *)
(* GLFW callbacks dispatched from glfwPollEvents); "app" runs the          *)
(* application callback; "sub" is a second application-side thread that    *)
(* exists only in the back-pressure scenario, where the thread that is     *)
(* blocked in acquireImage cannot itself submit.                           *)
(*                                                                         *)
(* Every API function is split into the steps between which another       *)
(* thread can be scheduled: one step per lock acquisition and per access   *)
(* to shared data.                                                         *)
(***************************************************************************)
EXTENDS Integers, Sequences, FiniteSets, TLC

(*************************** bounds of the model ***************************)
MaxImages  == 3      \* swapchains of 1..MaxImages images
MaxSubmits == 3      \* submitFrame calls per run
NumKeys    == 1      \* key codes 1..NumKeys
PoseRange  == 3      \* pose coordinates are kept modulo PoseRange
MaxLayers  == 2      \* layers per submitted frame
MaxHistory == 12     \* submitFrame calls per run of the history scenario
MaxTime    == 4      \* largest reading of the clock
MaxLiveSubmits == 2  \* submitFrame calls per run of the live-pose and key-time scenarios

(**************************** program constants ****************************)
historySize == 10

Threads    == {"main", "app", "sub"}
AppThreads == {"app", "sub"}
Keys       == 1..NumKeys

VARIABLES
    pc,              \* position of every thread
    locks,           \* per thread: the mutexes it holds, in acquisition order
    \* Swapchain
    numImages, index, acquiredStatus,
    notified,        \* threads in cond.wait that notify_all has woken
    \* reprojection variables (file scope of arp.cpp)
    poseFunction,    \* TRUE iff a pose function is registered
    windowShouldClose, hiddenShouldClose,
    frameValid, lastFrame, poseHistory,
    cameraPose, cameraPoseInfo,
    cursorCaptured, keyTimes, pressedKeys,
    predictedDt,
    event,           \* the key event glfwPollEvents is dispatching
    \* environment
    now,             \* value of glfwGetTime()
    cursor,          \* value of glfwGetCursorPos()
    \* locals of startReprojection
    frameStartTime, lastFrameDuration,
    \* locals of the application threads
    local,
    \* application state
    held,            \* images acquired and not yet submitted
    appPhase,        \* what the loop of appCallback calls next
    \* history (ghost) variables
    submitCount,     \* number of submitFrame calls started
    lastFrameSrc,    \* per field of lastFrame: the submission that wrote it
    tickSrc,         \* per field of lastFrame: the submission the tick read
    clearTime,       \* the clock at the last keyTimes.clear(), -1 before it
    drawn,           \* the draw calls of the running tick, in their order
    poseCalls,       \* the calls of the pose function by the running tick
    pubKeyTimes      \* keyTimes as the last publication of lastFrame.poseInfo
                     \* found it, until submitFrame clears keyTimes

swapVars  == <<numImages, index, acquiredStatus, notified>>
frameVars == <<frameValid, lastFrame, poseHistory, cameraPose, cameraPoseInfo>>
inputVars == <<cursorCaptured, keyTimes, pressedKeys, predictedDt, event>>
winVars   == <<poseFunction, windowShouldClose, hiddenShouldClose>>
loopVars  == <<frameStartTime, lastFrameDuration>>
ghostVars == <<submitCount, lastFrameSrc, tickSrc, clearTime, drawn, poseCalls, pubKeyTimes>>

vars == <<pc, locks, swapVars, winVars, frameVars, inputVars, now,
          cursor, loopVars, local, held, appPhase, ghostVars>>

(******************************* data types ********************************)
\* struct Pose: position and orientation, one coordinate each
ZeroPose == [position |-> 0, orientation |-> 0]

\* struct PoseInfo
ZeroPoseInfo == [mouseX |-> 0, mouseY |-> 0, time |-> 0, realPose |-> ZeroPose]

\* struct FrameSubmitInfo; layers is a sequence of FrameLayer
EmptyFrame == [pose |-> ZeroPose, poseInfo |-> ZeroPoseInfo, layers |-> <<>>]

\* struct FrameLayer (fov omitted: it only scales the quad)
FrameLayer(flags, i) == [flags |-> flags, swapchainIndex |-> i]

\* tickSrc before the tick has read anything
NoSrc == [pose |-> -1, poseInfo |-> -1, layers |-> -1]

NoEvent == [key |-> 0, action |-> "NONE"]

NONE == 0
PARALLAX_ENABLED == 1
CAMERA_LOCKED == 2

Images == 0..(numImages - 1)

\* the swapchain images referenced by the layers of a frame
LayerImages(frame) ==
    {frame.layers[k].swapchainIndex : k \in DOMAIN frame.layers}

RECURSIVE SetToSeq(_)
SetToSeq(S) ==
    IF S = {} THEN <<>>
    ELSE LET m == CHOOSE x \in S : \A y \in S : x <= y
         IN <<m>> \o SetToSeq(S \ {m})

\* sum of the function f over the set S
RECURSIVE SumOver(_, _)
SumOver(S, f) ==
    IF S = {} THEN 0
    ELSE LET k == CHOOSE x \in S : TRUE
         IN f[k] + SumOver(S \ {k}, f)

(********************************* mutexes *********************************)
Holds(t, m) == \E k \in DOMAIN locks[t] : locks[t][k] = m
Free(m)     == \A t \in Threads : ~Holds(t, m)

\* std::lock_guard / unique_lock constructor
Lock(t, m)   == [locks EXCEPT ![t] = Append(@, m)]
\* destructor / unlock()
Unlock(t, m) == [locks EXCEPT ![t] = SelectSeq(@, LAMBDA x : x # m)]

(****************************** pose function ******************************)
\* The application's pose function (test.cpp): orientation follows the
\* cursor deltas, position follows the key times.  kt is the KeyTimeFunction
\* as a function on Keys.
PoseFunction(lastPose, dx, dy, dt, kt) ==
    [orientation |-> (lastPose.orientation + dx + dy) % PoseRange,
     position    |-> (lastPose.position + SumOver(Keys, kt))
                        % PoseRange]

\* keyTimeFunction: keyTimes[key], where operator[] yields 0 for a key
\* that has no entry
keyTimeFunction(key) == IF key \in DOMAIN keyTimes THEN keyTimes[key] ELSE 0

\* operator[] also creates the entry it did not find
KeyTimesAfterLookup ==
    [k \in (DOMAIN keyTimes) \cup Keys |-> keyTimeFunction(k)]

(********************************** Init ***********************************)
LocalInit ==
    [submitId |-> 0, pose |-> ZeroPose, poseInfo |-> ZeroPoseInfo, submitInfo |-> EmptyFrame,
     relIdx |-> 1, ret |-> -1, dt |-> 0, dx |-> 0, dy |-> 0,
     numIntervals |-> 0, intervalsTotal |-> 0, displayTime |-> [num |-> 0, den |-> 1],
     time |-> 0, readTime |-> 0]

Init ==
    /\ pc = [t \in Threads |-> IF t = "main" THEN "start" ELSE "unborn"]
    /\ locks = [t \in Threads |-> <<>>]
    /\ numImages \in 1..MaxImages
    /\ index = 0
    /\ acquiredStatus = [i \in 0..(numImages - 1) |-> 0]
    /\ notified = {}
    /\ poseFunction \in BOOLEAN
    /\ windowShouldClose = FALSE
    /\ hiddenShouldClose = FALSE
    /\ frameValid = FALSE
    /\ lastFrame = EmptyFrame
    /\ poseHistory = <<>>
    /\ cameraPose = ZeroPose
    /\ cameraPoseInfo = ZeroPoseInfo
    /\ cursorCaptured = FALSE
    /\ keyTimes = <<>>
    /\ pressedKeys = {}
    /\ predictedDt = 0
    /\ event = NoEvent
    /\ now = 0
    /\ cursor = [x |-> 0, y |-> 0]
    /\ frameStartTime = 0
    /\ lastFrameDuration = 0
    /\ local = [t \in AppThreads |-> LocalInit]
    /\ held = {}
    /\ appPhase = "get"
    /\ submitCount = 0
    /\ lastFrameSrc = [pose |-> 0, poseInfo |-> 0, layers |-> 0]
    /\ tickSrc = NoSrc
    /\ clearTime = -1
    /\ drawn = <<>>
    /\ poseCalls = <<>>
    /\ pubKeyTimes = <<>>

(***************************************************************************)
(* Main thread: startReprojection                                          *)
(***************************************************************************)
appVars == <<local, held>>
envVars == <<now, cursor>>

\* variant: startReprojection without the test of lines 296-299
StartReprojectionUnchecked ==
    /\ pc["main"] = "start"
    /\ cameraPose' = ZeroPose
    /\ lastFrame' = [lastFrame EXCEPT !.pose = ZeroPose]
    /\ frameStartTime' = now
    /\ pc' = [t \in Threads |-> IF t = "main" THEN "loop" ELSE "idle"]
    /\ UNCHANGED <<frameValid, poseHistory, cameraPoseInfo, lastFrameDuration>>
    /\ UNCHANGED <<appPhase, locks, swapVars, winVars, inputVars, envVars,
                   appVars, ghostVars>>

\* lines 295-325: the precondition, the initial poses, the hidden window,
\* the application thread, the callbacks, frameStartTime
StartReprojection ==
    /\ pc["main"] = "start"
    /\ IF ~poseFunction
       THEN /\ pc' = [pc EXCEPT !["main"] = "failed"]
            /\ UNCHANGED <<frameVars, loopVars>>
       ELSE /\ cameraPose' = ZeroPose
            /\ lastFrame' = [lastFrame EXCEPT !.pose = ZeroPose]
            /\ frameStartTime' = now
            /\ pc' = [t \in Threads |->
                        IF t = "main" THEN "loop"
                        ELSE "idle"]
            /\ UNCHANGED <<frameValid, poseHistory, cameraPoseInfo,
                           lastFrameDuration>>
    /\ UNCHANGED <<appPhase, locks, swapVars, winVars, inputVars, envVars,
                   appVars, ghostVars>>

\* lines 327-337: the loop condition, the cursor mode, the frame time
LoopTop ==
    /\ pc["main"] = "loop"
    /\ IF windowShouldClose
       THEN /\ pc' = [pc EXCEPT !["main"] = "exit"]
            /\ UNCHANGED loopVars
       ELSE /\ lastFrameDuration' = now - frameStartTime
            /\ frameStartTime' = now
            /\ pc' = [pc EXCEPT !["main"] = "tick_lock_keys"]
    /\ UNCHANGED <<appPhase, locks, swapVars, winVars, frameVars, inputVars,
                   envVars, appVars, ghostVars>>

\* line 339: std::lock_guard keyTimesLock(keyTimesMutex)
TickLockKeyTimes ==
    /\ pc["main"] = "tick_lock_keys"
    /\ Free("keyTimesMutex")
    /\ locks' = Lock("main", "keyTimesMutex")
    /\ pc' = [pc EXCEPT !["main"] = "tick_lock_poses"]
    /\ UNCHANGED <<appPhase, swapVars, winVars, frameVars, inputVars, envVars,
                   loopVars, appVars, ghostVars>>

\* line 340: std::lock_guard posesLock(posesMutex)
TickLockPoses ==
    /\ pc["main"] = "tick_lock_poses"
    /\ Free("posesMutex")
    /\ locks' = Lock("main", "posesMutex")
    /\ pc' = [pc EXCEPT !["main"] = "tick_accum"]
    /\ UNCHANGED <<appPhase, swapVars, winVars, frameVars, inputVars, envVars,
                   loopVars, appVars, ghostVars>>

\* variant: a tick that advances the time of every key that has an entry,
\* pressed or not
TickAccumulateEveryKey ==
    /\ pc["main"] = "tick_accum"
    /\ keyTimes' = [k \in (DOMAIN keyTimes) \cup pressedKeys |->
                      keyTimeFunction(k) + lastFrameDuration]
    /\ pc' = [pc EXCEPT !["main"] = "tick_pose"]
    /\ UNCHANGED <<appPhase, locks, swapVars, winVars, frameVars,
                   cursorCaptured, pressedKeys, predictedDt, event, envVars,
                   loopVars, appVars, ghostVars>>

\* lines 341-343: keyTimes[key] += lastFrameDuration for every pressed key
TickAccumulate ==
    /\ pc["main"] = "tick_accum"
    /\ keyTimes' = [k \in (DOMAIN keyTimes) \cup pressedKeys |->
                      keyTimeFunction(k)
                      + (IF k \in pressedKeys THEN lastFrameDuration ELSE 0)]
    /\ pc' = [pc EXCEPT !["main"] = "tick_pose"]
    /\ UNCHANGED <<appPhase, locks, swapVars, winVars, frameVars,
                   cursorCaptured, pressedKeys, predictedDt, event, envVars,
                   loopVars, appVars, submitCount, lastFrameSrc, tickSrc, clearTime, drawn, poseCalls, pubKeyTimes>>

\* variant: a tick that hands the cursor difference to the pose function
\* whether the cursor is captured or not
TickPoseCursorAlways ==
    /\ pc["main"] = "tick_pose"
    /\ LET dx == cursor.x - lastFrame.poseInfo.mouseX
           dy == cursor.y - lastFrame.poseInfo.mouseY
           dt == frameStartTime - lastFrame.poseInfo.time
           p  == PoseFunction(lastFrame.poseInfo.realPose, dx, dy, dt,
                              KeyTimesAfterLookup)
       IN /\ cameraPose' = p
          /\ cameraPoseInfo' = [mouseX |-> cursor.x, mouseY |-> cursor.y,
                                time |-> frameStartTime, realPose |-> p]
          /\ poseCalls' = Append(poseCalls,
                                 [base |-> lastFrame.poseInfo.realPose,
                                  dx |-> dx, dy |-> dy, dt |-> dt])
    /\ keyTimes' = KeyTimesAfterLookup
    /\ tickSrc' = [tickSrc EXCEPT !.poseInfo = lastFrameSrc.poseInfo]
    /\ pc' = [pc EXCEPT !["main"] = "tick_draw"]
    /\ UNCHANGED <<appPhase, locks, swapVars, winVars, frameValid, lastFrame,
                   poseHistory, cursorCaptured, pressedKeys, predictedDt, event,
                   envVars, loopVars, appVars, submitCount, lastFrameSrc,
                   clearTime, drawn, pubKeyTimes>>

\* lines 347-363: the live pose from lastFrame.poseInfo and the input
TickPose ==
    /\ pc["main"] = "tick_pose"
    /\ LET dx == IF cursorCaptured
                 THEN cursor.x - lastFrame.poseInfo.mouseX ELSE 0
           dy == IF cursorCaptured
                 THEN cursor.y - lastFrame.poseInfo.mouseY ELSE 0
           dt == frameStartTime - lastFrame.poseInfo.time
           p  == PoseFunction(lastFrame.poseInfo.realPose, dx, dy, dt,
                              KeyTimesAfterLookup)
       IN /\ cameraPose' = p
          /\ cameraPoseInfo' = [mouseX |-> cursor.x, mouseY |-> cursor.y,
                                time |-> frameStartTime, realPose |-> p]
          /\ poseCalls' = Append(poseCalls,
                                 [base |-> lastFrame.poseInfo.realPose,
                                  dx |-> dx, dy |-> dy, dt |-> dt])
    /\ keyTimes' = KeyTimesAfterLookup
    /\ tickSrc' = [tickSrc EXCEPT !.poseInfo = lastFrameSrc.poseInfo]
    /\ pc' = [pc EXCEPT !["main"] = "tick_draw"]
    /\ UNCHANGED <<appPhase, locks, swapVars, winVars, frameValid, lastFrame,
                   poseHistory, cursorCaptured, pressedKeys, predictedDt, event,
                   envVars, loopVars, appVars, submitCount, lastFrameSrc,
                   clearTime, drawn, pubKeyTimes>>

\* layer.flags & flag, for a flag that is one bit
HasFlag(flags, flag) == (flags \div flag) % 2 = 1

\* variant: drawLayer without the comparison of the positions (line 387)
DrawPathAnyPosition(layer) ==
    IF HasFlag(layer.flags, PARALLAX_ENABLED)
       /\ ~HasFlag(layer.flags, CAMERA_LOCKED)
    THEN "parallax"
    ELSE "default"

\* drawLayer, lines 386-390: drawLayerParallaxEnabled or the default path
DrawPath(layer) ==
    IF /\ HasFlag(layer.flags, PARALLAX_ENABLED)
       /\ ~HasFlag(layer.flags, CAMERA_LOCKED)
       /\ lastFrame.pose.position # cameraPose.position
    THEN "parallax"
    ELSE "default"

\* lines 367-372: clear, draw the layers of lastFrame if frameValid, and
\* leave the scope of the two lock_guards.  drawLayer reads lastFrame.pose.
TickDraw ==
    /\ pc["main"] = "tick_draw"
    /\ tickSrc' = IF frameValid
                  THEN [tickSrc EXCEPT
                          !.layers = lastFrameSrc.layers,
                          !.pose = IF lastFrame.layers # <<>>
                                   THEN lastFrameSrc.pose ELSE @]
                  ELSE tickSrc
    /\ drawn' = IF frameValid
                THEN [k \in 1..Len(lastFrame.layers) |->
                        LET n == Len(lastFrame.layers) + 1 - k
                        IN [layer |-> n,
                            path |-> DrawPath(lastFrame.layers[n])]]
                ELSE <<>>
    /\ locks' = [locks EXCEPT !["main"] = <<>>]
    /\ pc' = [pc EXCEPT !["main"] = "poll"]
    /\ UNCHANGED <<appPhase, swapVars, winVars, frameVars, inputVars, envVars,
                   loopVars, appVars, submitCount, lastFrameSrc, clearTime,
                   poseCalls, pubKeyTimes>>

\* glfwPollEvents dispatches a key event to keyCallback
KeyEvent(key, action) ==
    /\ pc["main"] = "poll"
    /\ event' = [key |-> key, action |-> action]
    /\ pc' = [pc EXCEPT !["main"] = "key_cb"]
    /\ UNCHANGED <<appPhase, locks, swapVars, winVars, frameVars, cursorCaptured,
                   keyTimes, pressedKeys, predictedDt, envVars, loopVars,
                   appVars, ghostVars>>

\* keyCallback (lines 575-585)
keyCallback ==
    /\ pc["main"] = "key_cb"
    /\ pressedKeys' = IF event.action = "PRESS"
                      THEN pressedKeys \cup {event.key}
                      ELSE IF event.action = "RELEASE"
                      THEN pressedKeys \ {event.key}
                      ELSE pressedKeys
    /\ event' = NoEvent
    /\ pc' = [pc EXCEPT !["main"] = "poll"]
    /\ UNCHANGED <<appPhase, locks, swapVars, winVars, frameVars, cursorCaptured,
                   keyTimes, predictedDt, envVars, loopVars, appVars,
                   ghostVars>>

\* Swapchain::resize (lines 242-252), called by the application's
\* framebuffer-size callback from glfwPollEvents: lock_guard on the mutex
ResizeLock ==
    /\ pc["main"] = "poll"
    /\ Free("mutex")
    /\ locks' = Lock("main", "mutex")
    /\ pc' = [pc EXCEPT !["main"] = "resize"]
    /\ UNCHANGED <<appPhase, swapVars, winVars, frameVars, inputVars, envVars,
                   loopVars, appVars, ghostVars>>

\* variant: a resize that recreates the swapchain, all images released and
\* the rotation restarted
ResizeBodyRecreate ==
    /\ pc["main"] = "resize"
    /\ locks' = Unlock("main", "mutex")
    /\ pc' = [pc EXCEPT !["main"] = "poll"]
    /\ index' = 0
    /\ acquiredStatus' = [i \in DOMAIN acquiredStatus |-> 0]
    /\ UNCHANGED <<appPhase, numImages, notified, winVars, frameVars,
                   inputVars, envVars, loopVars, appVars, ghostVars>>

\* the texture storage is reallocated; index and acquiredStatus are untouched
ResizeBody ==
    /\ pc["main"] = "resize"
    /\ locks' = Unlock("main", "mutex")
    /\ pc' = [pc EXCEPT !["main"] = "poll"]
    /\ UNCHANGED <<appPhase, swapVars, winVars, frameVars, inputVars, envVars,
                   loopVars, appVars, ghostVars>>

\* the user closes the on-screen window (delivered by glfwPollEvents)
WindowClose ==
    /\ pc["main"] = "poll"
    /\ ~windowShouldClose
    /\ windowShouldClose' = TRUE
    /\ UNCHANGED <<appPhase, pc, locks, swapVars, poseFunction,
                   hiddenShouldClose, frameVars, inputVars, envVars, loopVars,
                   appVars, ghostVars>>

\* lines 374-376: glfwSwapBuffers and glfwPollEvents return
PollDone ==
    /\ pc["main"] = "poll"
    /\ tickSrc' = NoSrc
    /\ drawn' = <<>>
    /\ poseCalls' = <<>>
    /\ pc' = [pc EXCEPT !["main"] = "loop"]
    /\ UNCHANGED <<appPhase, locks, swapVars, winVars, frameVars, inputVars,
                   envVars, loopVars, appVars, submitCount, lastFrameSrc, clearTime,
                   pubKeyTimes>>

\* line 378: glfwSetWindowShouldClose(hiddenWindow, GLFW_TRUE)
LoopExit ==
    /\ pc["main"] = "exit"
    /\ hiddenShouldClose' = TRUE
    /\ pc' = [pc EXCEPT !["main"] = "join"]
    /\ UNCHANGED <<appPhase, locks, swapVars, poseFunction, windowShouldClose,
                   frameVars, inputVars, envVars, loopVars, appVars,
                   ghostVars>>

\* lines 380-382: reprojectionThread.join(); return 0
JoinApp ==
    /\ pc["main"] = "join"
    /\ pc["app"] = "done"
    /\ pc' = [pc EXCEPT !["main"] = "returned"]
    /\ UNCHANGED <<appPhase, locks, swapVars, winVars, frameVars, inputVars,
                   envVars, loopVars, appVars, ghostVars>>

\* glfwGetTime: the clock advances, in steps of two units so that the
\* halves taken by getPredictedCameraPose are whole numbers
AdvanceTime ==
    /\ now + 2 <= MaxTime
    /\ now' = now + 2
    /\ UNCHANGED <<appPhase, pc, locks, swapVars, winVars, frameVars,
                   inputVars, cursor, loopVars, appVars, ghostVars>>

\* glfwGetCursorPos: the user moves the mouse, by two units at a time for
\* the same reason
MoveCursor ==
    /\ \E x \in {0, 2} : cursor' = [cursor EXCEPT !.x = x]
    /\ cursor' # cursor
    /\ UNCHANGED <<appPhase, pc, locks, swapVars, winVars, frameVars,
                   inputVars, now, loopVars, appVars, ghostVars>>

\* startReprojection without the events that glfwPollEvents delivers
MainLoop ==
    \/ StartReprojection
    \/ LoopTop
    \/ TickLockKeyTimes
    \/ TickLockPoses
    \/ TickAccumulate
    \/ TickPose
    \/ TickDraw
    \/ PollDone
    \/ LoopExit
    \/ JoinApp

KeyEvents ==
    \/ \E key \in Keys, action \in {"PRESS", "RELEASE", "REPEAT"} :
          KeyEvent(key, action)
    \/ keyCallback

Resize ==
    \/ ResizeLock
    \/ ResizeBody

(***************************************************************************)
(* Swapchain::acquireImage (lines 222-236)                                 *)
(***************************************************************************)
Goto(t, l) == [pc EXCEPT ![t] = l]

\* variant: acquireImage without the test of acquiredStatus[index]
AcqCheckSkipped(t) ==
    /\ pc[t] = "acq_check"
    /\ pc' = Goto(t, "acq_take")
    /\ UNCHANGED <<appPhase, locks, swapVars, winVars, frameVars, inputVars,
                   envVars, loopVars, appVars, ghostVars>>

\* line 224: the first test of acquiredStatus[index], without the mutex
AcqCheck(t) ==
    /\ pc[t] = "acq_check"
    /\ pc' = Goto(t, IF acquiredStatus[index] = 1 THEN "acq_lock"
                     ELSE "acq_take")
    /\ UNCHANGED <<appPhase, locks, swapVars, winVars, frameVars, inputVars,
                   envVars, loopVars, appVars, ghostVars>>

\* acquireImage that waits under the exchange mutex as well
AcqLockExchange(t) ==
    /\ pc[t] = "acq_lock"
    /\ Free("mutex")
    /\ Free("posesMutex")
    /\ locks' = [locks EXCEPT ![t] = <<"posesMutex", "mutex">>]
    /\ pc' = Goto(t, "acq_loop")
    /\ UNCHANGED <<appPhase, swapVars, winVars, frameVars, inputVars,
                   envVars, loopVars, appVars, ghostVars>>

\* line 225: std::unique_lock lock(mutex)
AcqLock(t) ==
    /\ pc[t] = "acq_lock"
    /\ Free("mutex")
    /\ locks' = Lock(t, "mutex")
    /\ pc' = Goto(t, "acq_loop")
    /\ UNCHANGED <<appPhase, swapVars, winVars, frameVars, inputVars,
                   envVars, loopVars, appVars, ghostVars>>

\* lines 226-229: while(acquiredStatus[index]) cond.wait(lock); unlock
AcqLoop(t) ==
    /\ pc[t] = "acq_loop"
    /\ locks' = Unlock(t, "mutex")
    /\ IF acquiredStatus[index] = 1
       THEN /\ pc' = Goto(t, "acq_wait")
            /\ notified' = notified \ {t}
       ELSE /\ pc' = Goto(t, "acq_take")
            /\ UNCHANGED notified
    /\ UNCHANGED <<appPhase, numImages, index, acquiredStatus, winVars,
                   frameVars, inputVars, envVars, loopVars, appVars,
                   ghostVars>>

\* line 227: cond.wait returns, after notify_all or spuriously, with the
\* mutex locked again
AcqWake(t) ==
    /\ pc[t] = "acq_wait"
    /\ Free("mutex")
    /\ locks' = Lock(t, "mutex")
    /\ notified' = notified \ {t}
    /\ pc' = Goto(t, "acq_loop")
    /\ UNCHANGED <<appPhase, numImages, index, acquiredStatus, winVars,
                   frameVars, inputVars, envVars, loopVars, appVars,
                   ghostVars>>

\* the return of cond.wait that notify_all causes
AcqWakeNotified(t) == AcqWake(t) /\ t \in notified

\* variant: acquireImage that leaves index where it is
AcqTakeSameSlot(t) ==
    /\ pc[t] = "acq_take"
    /\ acquiredStatus' = [acquiredStatus EXCEPT ![index] = 1]
    /\ index' = index
    /\ local' = [local EXCEPT ![t].ret = index]
    /\ held' = held \cup {index}
    /\ pc' = Goto(t, "acq_ret")
    /\ UNCHANGED <<appPhase, locks, numImages, notified, winVars, frameVars,
                   inputVars, envVars, loopVars, ghostVars>>

\* lines 232-235: i = index; acquiredStatus[i] = 1; index = (index+1) % n
AcqTake(t) ==
    /\ pc[t] = "acq_take"
    /\ acquiredStatus' = [acquiredStatus EXCEPT ![index] = 1]
    /\ index' = (index + 1) % numImages
    /\ local' = [local EXCEPT ![t].ret = index]
    /\ held' = held \cup {index}
    /\ pc' = Goto(t, "acq_ret")
    /\ UNCHANGED <<appPhase, locks, numImages, notified, winVars, frameVars,
                   inputVars, envVars, loopVars, ghostVars>>

\* return i
AcqReturn(t) ==
    /\ pc[t] = "acq_ret"
    /\ pc' = Goto(t, "idle")
    /\ UNCHANGED <<appPhase, locks, swapVars, winVars, frameVars, inputVars,
                   envVars, loopVars, appVars, ghostVars>>

(***************************************************************************)
(* Swapchain::releaseImage (lines 254-258), as called by submitFrame       *)
(***************************************************************************)
\* variant: releaseImage without cond.notify_all()
releaseImageNoNotify(i) ==
    /\ acquiredStatus' = [acquiredStatus EXCEPT ![i] = 0]
    /\ notified' = notified

\* releaseImage that leaves acquiredStatus[i] set
releaseImageNoClear(i) ==
    /\ UNCHANGED acquiredStatus
    /\ notified' = {t \in AppThreads : pc[t] = "acq_wait"}

\* the body under the lock_guard: acquiredStatus[i] = 0; cond.notify_all()
releaseImage(i) ==
    /\ acquiredStatus' = [acquiredStatus EXCEPT ![i] = 0]
    /\ notified' = {t \in AppThreads : pc[t] = "acq_wait"}

(***************************************************************************)
(* submitFrame (lines 482-506)                                             *)
(***************************************************************************)
\* variant: submitFrame without the pop_front loop
TrimHistoryKeepAll(h) == h

\* lines 485-489: push_back, then pop_front while longer than historySize
RECURSIVE TrimHistory(_)
TrimHistory(h) == IF Len(h) > historySize THEN TrimHistory(Tail(h)) ELSE h

SubHistory(t) ==
    /\ pc[t] = "sub_history"
    /\ poseHistory' = TrimHistory(Append(poseHistory,
                                         local[t].submitInfo.poseInfo))
    /\ local' = [local EXCEPT ![t].relIdx = 1]
    /\ pc' = Goto(t, "sub_release")
    /\ UNCHANGED <<appPhase, locks, swapVars, winVars, frameValid, lastFrame,
                   cameraPose, cameraPoseInfo, inputVars, envVars, loopVars,
                   held, ghostVars>>

\* variant: submitFrame releasing the images of the frame it is given
ReleasedLayersOfNewFrame(t) == local[t].submitInfo.layers

\* line 491: the layers whose images submitFrame releases are those of the
\* frame that is published when it is called
ReleasedLayers(t) == lastFrame.layers

\* lines 491-492: next layer of lastFrame; releaseImage locks the mutex
SubReleaseLock(t) ==
    /\ pc[t] = "sub_release"
    /\ local[t].relIdx <= Len(ReleasedLayers(t))
    /\ Free("mutex")
    /\ locks' = Lock(t, "mutex")
    /\ pc' = Goto(t, "sub_rel_body")
    /\ UNCHANGED <<appPhase, swapVars, winVars, frameVars, inputVars,
                   envVars, loopVars, appVars, ghostVars>>

SubReleaseBody(t) ==
    /\ pc[t] = "sub_rel_body"
    /\ releaseImage(ReleasedLayers(t)[local[t].relIdx].swapchainIndex)
    /\ locks' = Unlock(t, "mutex")
    /\ local' = [local EXCEPT ![t].relIdx = @ + 1]
    /\ pc' = Goto(t, "sub_release")
    /\ UNCHANGED <<appPhase, numImages, index, winVars, frameVars, inputVars,
                   envVars, loopVars, held, ghostVars>>

\* line 493: the loop over lastFrame.layers is finished
SubReleaseDone(t) ==
    /\ pc[t] = "sub_release"
    /\ local[t].relIdx > Len(ReleasedLayers(t))
    /\ pc' = Goto(t, "sub_lock_poses")
    /\ UNCHANGED <<appPhase, locks, swapVars, winVars, frameVars, inputVars,
                   envVars, loopVars, appVars, ghostVars>>

\* submitFrame without the lock_guard of line 496
SubLockPosesNoMutex(t) ==
    /\ pc[t] = "sub_lock_poses"
    /\ pc' = Goto(t, "sub_pub_pose")
    /\ UNCHANGED <<appPhase, locks, swapVars, winVars, frameVars, inputVars,
                   envVars, loopVars, appVars, ghostVars>>

\* line 496: std::lock_guard posesLock(posesMutex)
SubLockPoses(t) ==
    /\ pc[t] = "sub_lock_poses"
    /\ Free("posesMutex")
    /\ locks' = Lock(t, "posesMutex")
    /\ pc' = Goto(t, "sub_pub_pose")
    /\ UNCHANGED <<appPhase, swapVars, winVars, frameVars, inputVars,
                   envVars, loopVars, appVars, ghostVars>>

\* line 497: lastFrame = submitInfo copies the members one after the other
SubPubPose(t) ==
    /\ pc[t] = "sub_pub_pose"
    /\ lastFrame' = [lastFrame EXCEPT !.pose = local[t].submitInfo.pose]
    /\ lastFrameSrc' = [lastFrameSrc EXCEPT !.pose = local[t].submitId]
    /\ pc' = Goto(t, "sub_pub_info")
    /\ UNCHANGED <<appPhase, locks, swapVars, winVars, frameValid,
                   poseHistory, cameraPose, cameraPoseInfo, inputVars,
                   envVars, loopVars, appVars, submitCount, tickSrc, clearTime, drawn, poseCalls, pubKeyTimes>>

SubPubInfo(t) ==
    /\ pc[t] = "sub_pub_info"
    /\ lastFrame' = [lastFrame EXCEPT !.poseInfo = local[t].submitInfo.poseInfo]
    /\ lastFrameSrc' = [lastFrameSrc EXCEPT !.poseInfo = local[t].submitId]
    /\ pubKeyTimes' = keyTimes
    /\ pc' = Goto(t, "sub_pub_layers")
    /\ UNCHANGED <<appPhase, locks, swapVars, winVars, frameValid,
                   poseHistory, cameraPose, cameraPoseInfo, inputVars,
                   envVars, loopVars, appVars, submitCount, tickSrc, clearTime,
                   drawn, poseCalls>>

\* submitFrame whose lock_guard on posesMutex lives until the function ends
SubPubLayersKeepLock(t) ==
    /\ pc[t] = "sub_pub_layers"
    /\ lastFrame' = [lastFrame EXCEPT !.layers = local[t].submitInfo.layers]
    /\ lastFrameSrc' = [lastFrameSrc EXCEPT !.layers = local[t].submitId]
    /\ pc' = Goto(t, "sub_lock_keys")
    /\ UNCHANGED <<appPhase, locks, swapVars, winVars, frameValid,
                   poseHistory, cameraPose, cameraPoseInfo, inputVars,
                   envVars, loopVars, appVars, submitCount, tickSrc, clearTime, drawn, poseCalls, pubKeyTimes>>

\* the last member, and the end of the lock_guard's scope (line 498)
SubPubLayers(t) ==
    /\ pc[t] = "sub_pub_layers"
    /\ lastFrame' = [lastFrame EXCEPT !.layers = local[t].submitInfo.layers]
    /\ lastFrameSrc' = [lastFrameSrc EXCEPT !.layers = local[t].submitId]
    /\ locks' = Unlock(t, "posesMutex")
    /\ pc' = Goto(t, "sub_lock_keys")
    /\ UNCHANGED <<appPhase, swapVars, winVars, frameValid, poseHistory,
                   cameraPose, cameraPoseInfo, inputVars, envVars, loopVars,
                   appVars, submitCount, tickSrc, clearTime, drawn, poseCalls, pubKeyTimes>>

\* line 501: std::lock_guard lock(keyTimesMutex)
SubLockKeyTimes(t) ==
    /\ pc[t] = "sub_lock_keys"
    /\ Free("keyTimesMutex")
    /\ locks' = Lock(t, "keyTimesMutex")
    /\ pc' = Goto(t, "sub_clear")
    /\ UNCHANGED <<appPhase, swapVars, winVars, frameVars, inputVars,
                   envVars, loopVars, appVars, ghostVars>>

\* lines 502-503: keyTimes.clear() and the end of the scope
SubClear(t) ==
    /\ pc[t] = "sub_clear"
    /\ keyTimes' = <<>>
    /\ clearTime' = now
    /\ pubKeyTimes' = <<>>
    /\ locks' = Unlock(t, "keyTimesMutex")
    /\ pc' = Goto(t, "sub_valid")
    /\ UNCHANGED <<appPhase, swapVars, winVars, frameVars, cursorCaptured,
                   pressedKeys, predictedDt, event, envVars, loopVars, appVars,
                   submitCount, lastFrameSrc, tickSrc, drawn, poseCalls>>

\* variant: submitFrame without the assignment of line 505
SubValidUnset(t) ==
    /\ pc[t] = "sub_valid"
    /\ frameValid' = frameValid
    /\ local' = [local EXCEPT ![t].submitInfo = EmptyFrame,
                              ![t].relIdx = 1]
    /\ pc' = Goto(t, "idle")
    /\ UNCHANGED <<appPhase, locks, swapVars, winVars, lastFrame,
                   poseHistory, cameraPose, cameraPoseInfo, inputVars,
                   envVars, loopVars, held, ghostVars>>

\* line 505: frameValid = true; return
SubValid(t) ==
    /\ pc[t] = "sub_valid"
    /\ frameValid' = TRUE
    /\ local' = [local EXCEPT ![t].submitInfo = EmptyFrame,
                              ![t].relIdx = 1]
    /\ pc' = Goto(t, "idle")
    /\ UNCHANGED <<appPhase, locks, swapVars, winVars, lastFrame,
                   poseHistory, cameraPose, cameraPoseInfo, inputVars,
                   envVars, loopVars, held, ghostVars>>

(***************************************************************************)
(* getCameraPose (lines 508-512)                                           *)
(***************************************************************************)
\* variant: getCameraPose without the lock_guard of line 509
GcpLockNoMutex(t) ==
    /\ pc[t] = "gcp_lock"
    /\ pc' = Goto(t, "gcp_pose")
    /\ UNCHANGED <<appPhase, locks, swapVars, winVars, frameVars, inputVars,
                   envVars, loopVars, appVars, ghostVars>>

\* line 509: std::lock_guard posesLock(posesMutex)
GcpLock(t) ==
    /\ pc[t] = "gcp_lock"
    /\ Free("posesMutex")
    /\ locks' = Lock(t, "posesMutex")
    /\ pc' = Goto(t, "gcp_pose")
    /\ UNCHANGED <<appPhase, swapVars, winVars, frameVars, inputVars,
                   envVars, loopVars, appVars, ghostVars>>

\* line 510: pose = cameraPose
GcpPose(t) ==
    /\ pc[t] = "gcp_pose"
    /\ local' = [local EXCEPT ![t].pose = cameraPose]
    /\ pc' = Goto(t, "gcp_info")
    /\ UNCHANGED <<appPhase, locks, swapVars, winVars, frameVars, inputVars,
                   envVars, loopVars, held, ghostVars>>

\* line 511: poseInfo = cameraPoseInfo; return
GcpInfo(t) ==
    /\ pc[t] = "gcp_info"
    /\ local' = [local EXCEPT ![t].poseInfo = cameraPoseInfo]
    /\ locks' = Unlock(t, "posesMutex")
    /\ pc' = Goto(t, "idle")
    /\ UNCHANGED <<appPhase, swapVars, winVars, frameVars, inputVars,
                   envVars, loopVars, held, ghostVars>>

(***************************************************************************)
(* getPredictedCameraPose (lines 538-560)                                  *)
(***************************************************************************)
\* multiplication by 0.5; the model keeps the halved quantities even
Half(x) == x \div 2

GppLock(t) ==
    /\ pc[t] = "gpp_lock"
    /\ Free("posesMutex")
    /\ locks' = Lock(t, "posesMutex")
    /\ pc' = Goto(t, "gpp_info")
    /\ UNCHANGED <<appPhase, swapVars, winVars, frameVars, inputVars,
                   envVars, loopVars, appVars, ghostVars>>

\* variant: a prediction that stamps the poseInfo it returns with the time
\* it was asked to predict
GppInfoTargetTime(t) ==
    /\ pc[t] = "gpp_info"
    /\ local' = [local EXCEPT
         ![t].poseInfo = [cameraPoseInfo EXCEPT !.time = local[t].time],
         ![t].readTime = now,
         ![t].dt = Half(local[t].time - now),
         ![t].dx = Half(cameraPoseInfo.mouseX - lastFrame.poseInfo.mouseX),
         ![t].dy = Half(cameraPoseInfo.mouseY - lastFrame.poseInfo.mouseY)]
    /\ pc' = Goto(t, "gpp_lock_pred")
    /\ UNCHANGED <<appPhase, locks, swapVars, winVars, frameVars, inputVars,
                   envVars, loopVars, held, ghostVars>>

\* lines 540-550: poseInfo, dt, dx, dy (local[t].time is the parameter
\* time, local[t].readTime records what glfwGetTime returned)
GppInfo(t) ==
    /\ pc[t] = "gpp_info"
    /\ local' = [local EXCEPT
         ![t].poseInfo = cameraPoseInfo,
         ![t].readTime = now,
         ![t].dt = Half(local[t].time - now),
         ![t].dx = Half(cameraPoseInfo.mouseX - lastFrame.poseInfo.mouseX),
         ![t].dy = Half(cameraPoseInfo.mouseY - lastFrame.poseInfo.mouseY)]
    /\ pc' = Goto(t, "gpp_lock_pred")
    /\ UNCHANGED <<appPhase, locks, swapVars, winVars, frameVars, inputVars,
                   envVars, loopVars, held, ghostVars>>

\* line 554: std::lock_guard lock(predictionMutex)
GppLockPrediction(t) ==
    /\ pc[t] = "gpp_lock_pred"
    /\ Free("predictionMutex")
    /\ locks' = Lock(t, "predictionMutex")
    /\ pc' = Goto(t, "gpp_setdt")
    /\ UNCHANGED <<appPhase, swapVars, winVars, frameVars, inputVars,
                   envVars, loopVars, appVars, ghostVars>>

\* line 555: predictedDt = dt
GppSetDt(t) ==
    /\ pc[t] = "gpp_setdt"
    /\ predictedDt' = local[t].dt
    /\ pc' = Goto(t, "gpp_call")
    /\ UNCHANGED <<appPhase, locks, swapVars, winVars, frameVars,
                   cursorCaptured, keyTimes, pressedKeys, event, envVars, loopVars,
                   appVars, ghostVars>>

\* What pressedKeys.count can report to the closure of line 558, which runs
\* without keyTimesMutex: the set itself, unless keyCallback is inserting
\* or erasing a key on the main thread at that moment (a data race), and
\* then any of the keys may be found or missed.
PressedKeysSeen ==
    IF /\ pc["main"] = "key_cb"
       /\ \/ event.action = "PRESS" /\ event.key \notin pressedKeys
          \/ event.action = "RELEASE" /\ event.key \in pressedKeys
    THEN SUBSET (pressedKeys \cup {event.key})
    ELSE {pressedKeys}

\* lines 557-560: the pose function with the closure over pressedKeys and
\* predictedDt; both lock_guards end
GppCall(t) ==
    /\ pc[t] = "gpp_call"
    /\ \E seen \in PressedKeysSeen :
         LET closure == [k \in Keys |->
                           IF k \in seen THEN predictedDt ELSE 0]
         IN local' = [local EXCEPT
              ![t].pose = PoseFunction(cameraPose, local[t].dx, local[t].dy,
                                       local[t].dt, closure),
              ![t].dt = 0, ![t].dx = 0, ![t].dy = 0,
              ![t].time = 0, ![t].readTime = 0]
    /\ locks' = [locks EXCEPT ![t] = <<>>]
    /\ pc' = Goto(t, "idle")
    /\ UNCHANGED <<appPhase, swapVars, winVars, frameVars, inputVars,
                   envVars, loopVars, held, submitCount, lastFrameSrc,
                   tickSrc, clearTime, drawn, poseCalls, pubKeyTimes>>

(***************************************************************************)
(* getPredictedDisplayTime (lines 514-534).  No mutex is taken.  The       *)
(* result is a quotient of doubles; it is kept as the exact fraction       *)
(* num / den.                                                              *)
(***************************************************************************)
\* variant: the loop of lines 523-531 without the test of line 524
RECURSIVE IntervalsTotalNoSentinel(_, _, _)
IntervalsTotalNoSentinel(h, lastTime, total) ==
    IF h = <<>> THEN total
    ELSE IntervalsTotalNoSentinel(Tail(h), Head(h).time,
                                  total + (Head(h).time - lastTime))

\* lines 523-531: the loop over poseHistory, entered with lastTime = -1.0
\* and intervalsTotal = 0
RECURSIVE IntervalsTotal(_, _, _)
IntervalsTotal(h, lastTime, total) ==
    IF h = <<>> THEN total
    ELSE IF lastTime = -1
         THEN IntervalsTotal(Tail(h), Head(h).time, total)
         ELSE IntervalsTotal(Tail(h), Head(h).time,
                             total + (Head(h).time - lastTime))

\* lines 515-518: fewer than two entries, return 1.0 / 60.0
PdtSeed(t) ==
    /\ pc[t] = "pdt_size"
    /\ Len(poseHistory) < 2
    /\ local' = [local EXCEPT ![t].displayTime = [num |-> 1, den |-> 60]]
    /\ pc' = Goto(t, "idle")
    /\ UNCHANGED <<appPhase, locks, swapVars, winVars, frameVars, inputVars,
                   envVars, loopVars, held, ghostVars>>

\* lines 515-531: numIntervals and the sum of the intervals
PdtLoop(t) ==
    /\ pc[t] = "pdt_size"
    /\ Len(poseHistory) >= 2
    /\ local' = [local EXCEPT
         ![t].numIntervals = Len(poseHistory) - 1,
         ![t].intervalsTotal = IntervalsTotal(poseHistory, -1, 0)]
    /\ pc' = Goto(t, "pdt_ret")
    /\ UNCHANGED <<appPhase, locks, swapVars, winVars, frameVars, inputVars,
                   envVars, loopVars, held, ghostVars>>

\* line 533: lastFrame.poseInfo.time + intervalsTotal / numIntervals
PdtReturn(t) ==
    /\ pc[t] = "pdt_ret"
    /\ local' = [local EXCEPT
         ![t].displayTime =
            [num |-> lastFrame.poseInfo.time * local[t].numIntervals
                        + local[t].intervalsTotal,
             den |-> local[t].numIntervals],
         ![t].numIntervals = 0,
         ![t].intervalsTotal = 0]
    /\ pc' = Goto(t, "idle")
    /\ UNCHANGED <<appPhase, locks, swapVars, winVars, frameVars, inputVars,
                   envVars, loopVars, held, ghostVars>>

DisplayTimeSteps(t) ==
    \/ PdtSeed(t)
    \/ PdtLoop(t)
    \/ PdtReturn(t)

(***************************************************************************)
(* shutdown (lines 562-565)                                                *)
(***************************************************************************)
\* line 563: glfwSetWindowShouldClose(window, GLFW_TRUE)
ShutdownFlag(t) ==
    /\ pc[t] = "shut_flag"
    /\ windowShouldClose' = TRUE
    /\ pc' = Goto(t, "shut_join")
    /\ UNCHANGED <<appPhase, locks, swapVars, poseFunction, hiddenShouldClose,
                   frameVars, inputVars, envVars, loopVars, appVars,
                   ghostVars>>

\* line 564: reprojectionThread.join() on the thread that reprojectionThread
\* stands for.  std::thread::join either detects the self-join and throws
\* std::system_error (resource_deadlock_would_occur), which leaves shutdown
\* as an exception, or waits for ever (no step).
ShutdownJoinThrows(t) ==
    /\ pc[t] = "shut_join"
    /\ pc' = Goto(t, "shut_threw")
    /\ UNCHANGED <<appPhase, locks, swapVars, winVars, frameVars, inputVars,
                   envVars, loopVars, appVars, ghostVars>>

ShutdownSteps(t) ==
    \/ ShutdownFlag(t)
    \/ ShutdownJoinThrows(t)

(***************************************************************************)
(* Calls made by the application callback                                  *)
(***************************************************************************)
\* The Call actions leave appPhase to the application that makes the call.
CallAcquireImage(t) ==
    /\ pc[t] = "idle"
    /\ pc' = Goto(t, "acq_check")
    /\ UNCHANGED <<locks, swapVars, winVars, frameVars, inputVars, envVars,
                   loopVars, appVars, ghostVars>>

\* the application fills a FrameSubmitInfo with the pose and poseInfo it
\* got last and one layer per image of imgs, and calls submitFrame
CallSubmitFrame(t, imgs) ==
    /\ pc[t] = "idle"
    /\ submitCount < MaxSubmits
    /\ submitCount' = submitCount + 1
    /\ local' = [local EXCEPT
         ![t].submitId = submitCount + 1,
         ![t].submitInfo =
            [pose |-> local[t].pose, poseInfo |-> local[t].poseInfo,
             layers |-> [k \in 1..Cardinality(imgs) |->
                           FrameLayer(NONE, SetToSeq(imgs)[k])]]]
    /\ held' = held \ imgs
    /\ pc' = Goto(t, "sub_history")
    /\ UNCHANGED <<locks, swapVars, winVars, frameVars, inputVars, envVars,
                   loopVars, lastFrameSrc, tickSrc, clearTime, drawn, poseCalls, pubKeyTimes>>

CallGetCameraPose(t) ==
    /\ pc[t] = "idle"
    /\ pc' = Goto(t, "gcp_lock")
    /\ UNCHANGED <<locks, swapVars, winVars, frameVars, inputVars, envVars,
                   loopVars, appVars, ghostVars>>

CallGetPredictedCameraPose(t, time) ==
    /\ pc[t] = "idle"
    /\ local' = [local EXCEPT ![t].time = time]
    /\ pc' = Goto(t, "gpp_lock")
    /\ UNCHANGED <<locks, swapVars, winVars, frameVars, inputVars, envVars,
                   loopVars, held, ghostVars>>

CallGetPredictedDisplayTime(t) ==
    /\ pc[t] = "idle"
    /\ pc' = Goto(t, "pdt_size")
    /\ UNCHANGED <<locks, swapVars, winVars, frameVars, inputVars, envVars,
                   loopVars, appVars, ghostVars>>

CallShutdown(t) ==
    /\ pc[t] = "idle"
    /\ pc' = Goto(t, "shut_flag")
    /\ UNCHANGED <<locks, swapVars, winVars, frameVars, inputVars, envVars,
                   loopVars, appVars, ghostVars>>

\* variant: appThreadStarter without line 572
appThreadStarterSilent(t) ==
    /\ pc[t] = "idle"
    /\ pc' = Goto(t, "done")
    /\ UNCHANGED <<locks, swapVars, winVars, frameVars, inputVars, envVars,
                   loopVars, appVars, ghostVars>>

\* appThreadStarter (lines 567-573): the callback has returned
appThreadStarter(t) ==
    /\ pc[t] = "idle"
    /\ windowShouldClose' = TRUE
    /\ pc' = Goto(t, "done")
    /\ UNCHANGED <<locks, swapVars, poseFunction, hiddenShouldClose,
                   frameVars, inputVars, envVars, loopVars, appVars,
                   ghostVars>>

AcquireSteps(t) ==
    \/ AcqCheck(t)
    \/ AcqLock(t)
    \/ AcqLoop(t)
    \/ AcqWake(t)
    \/ AcqTake(t)
    \/ AcqReturn(t)

SubmitSteps(t) ==
    \/ SubHistory(t)
    \/ SubReleaseLock(t)
    \/ SubReleaseBody(t)
    \/ SubReleaseDone(t)
    \/ SubLockPoses(t)
    \/ SubPubPose(t)
    \/ SubPubInfo(t)
    \/ SubPubLayers(t)
    \/ SubLockKeyTimes(t)
    \/ SubClear(t)
    \/ SubValid(t)

GetPoseSteps(t) ==
    \/ GcpLock(t)
    \/ GcpPose(t)
    \/ GcpInfo(t)
    \/ GppLock(t)
    \/ GppInfo(t)
    \/ GppLockPrediction(t)
    \/ GppSetDt(t)
    \/ GppCall(t)

(***************************************************************************)
(* Specification 1: an application thread that acquires and submits in    *)
(* any order and may put any images into the frames it submits.            *)
(***************************************************************************)
FreeApp ==
    /\ UNCHANGED appPhase
    /\ \/ CallAcquireImage("app")
       \/ \E imgs \in {S \in SUBSET held : Cardinality(S) <= MaxLayers} :
             CallSubmitFrame("app", imgs)
       \/ appThreadStarter("app")

Next ==
    \/ MainLoop
    \/ FreeApp
    \/ AcquireSteps("app")
    \/ SubmitSteps("app")

Spec == Init /\ [][Next]_vars

(***************************************************************************)
(* Specification 2: the loop of appCallback in test.cpp (lines 155-293):   *)
(* get a pose, acquire an image, render, submit it; leave the loop when    *)
(* the hidden window should close.                                         *)
(***************************************************************************)
AltApp ==
    \/ /\ appPhase = "get"
       /\ ~hiddenShouldClose
       /\ submitCount < MaxSubmits
       /\ \/ CallGetCameraPose("app")
          \/ CallGetPredictedCameraPose("app", now)
       /\ appPhase' = "acquire"
    \/ /\ appPhase = "acquire"
       /\ CallAcquireImage("app")
       /\ appPhase' = "submit"
    \/ /\ appPhase = "submit"
       /\ CallSubmitFrame("app", {local["app"].ret})
       /\ appPhase' = "get"
    \/ /\ appPhase = "get"
       /\ hiddenShouldClose
       /\ appThreadStarter("app")
       /\ UNCHANGED appPhase

NextAlt ==
    \/ MainLoop
    \/ KeyEvents
    \/ Resize
    \/ WindowClose
    \/ AltApp
    \/ AcquireSteps("app")
    \/ SubmitSteps("app")
    \/ GetPoseSteps("app")

SpecAlt == Init /\ [][NextAlt]_vars

\* Both threads keep being scheduled.  A thread that tries to lock a mutex
\* gets it if the mutex is free again and again (strong fairness); no
\* progress is assumed from spurious wake-ups of cond.wait.
AltAppProgress ==
    \/ AltApp
    \/ AcqCheck("app") \/ AcqLock("app") \/ AcqLoop("app")
    \/ AcqWakeNotified("app") \/ AcqTake("app") \/ AcqReturn("app")
    \/ SubmitSteps("app")
    \/ GetPoseSteps("app")

\* An event handler that glfwPollEvents has entered runs to its end.
HandlerReturns ==
    \/ ResizeBody
    \/ keyCallback

SpecAltFair ==
    SpecAlt /\ WF_vars(MainLoop) /\ WF_vars(HandlerReturns)
            /\ SF_vars(AltAppProgress)

\* SpecAltFair with a loop that no stream of events holds back for ever:
\* glfwPollEvents returns after the events that were pending.
SpecAltLive ==
    SpecAlt /\ SF_vars(MainLoop) /\ WF_vars(HandlerReturns)
            /\ SF_vars(AltAppProgress)

(***************************************************************************)
(* Specification 3: back-pressure.  Thread "app" only acquires images and  *)
(* a second application thread "sub" submits the images that were          *)
(* acquired, so that a submit can happen while "app" waits.                *)
(***************************************************************************)
\* the images that acquireImage has returned to the application and that
\* were not submitted
HeldReturned ==
    held \ {local[t].ret : t \in {u \in AppThreads : pc[u] = "acq_ret"}}

BpApp ==
    /\ UNCHANGED appPhase
    /\ \/ CallAcquireImage("app")
       \/ \E imgs \in {S \in SUBSET HeldReturned :
                          Cardinality(S) <= MaxLayers} :
             CallSubmitFrame("sub", imgs)
       \/ hiddenShouldClose /\ appThreadStarter("app")

NextBp ==
    \/ MainLoop
    \/ Resize
    \/ WindowClose
    \/ BpApp
    \/ AcquireSteps("app")
    \/ SubmitSteps("sub")

\* the swapchain of the back-pressure scenario has two images
InitBp == Init /\ numImages = 2

SpecBp == InitBp /\ [][NextBp]_vars

BpAcquireProgress ==
    \/ AcqCheck("app") \/ AcqLock("app") \/ AcqLoop("app")
    \/ AcqWakeNotified("app") \/ AcqTake("app") \/ AcqReturn("app")

SpecBpFair ==
    SpecBp /\ WF_vars(MainLoop) /\ WF_vars(HandlerReturns)
           /\ SF_vars(BpAcquireProgress) /\ SF_vars(SubmitSteps("sub"))

(***************************************************************************)
(* Specification 4: the pose history.  The application loop acquires an    *)
(* image and submits it MaxHistory times; the PoseInfo of the n-th         *)
(* submitted frame carries the time stamp n, so that the entries of        *)
(* poseHistory can be told apart.                                          *)
(***************************************************************************)
CallSubmitStamped(t, imgs) ==
    /\ pc[t] = "idle"
    /\ submitCount < MaxHistory
    /\ submitCount' = submitCount + 1
    /\ local' = [local EXCEPT
         ![t].submitId = submitCount + 1,
         ![t].submitInfo =
            [pose |-> local[t].pose,
             poseInfo |-> [local[t].poseInfo EXCEPT !.time = submitCount + 1],
             layers |-> [k \in 1..Cardinality(imgs) |->
                           FrameLayer(NONE, SetToSeq(imgs)[k])]]]
    /\ held' = held \ imgs
    /\ pc' = Goto(t, "sub_history")
    /\ UNCHANGED <<locks, swapVars, winVars, frameVars, inputVars, envVars,
                   loopVars, lastFrameSrc, tickSrc, clearTime, drawn, poseCalls, pubKeyTimes>>

HistApp ==
    \/ /\ appPhase = "get"
       /\ ~hiddenShouldClose
       /\ submitCount < MaxHistory
       /\ CallAcquireImage("app")
       /\ appPhase' = "submit"
    \/ /\ appPhase = "submit"
       /\ CallSubmitStamped("app", {local["app"].ret})
       /\ appPhase' = "get"
    \/ /\ appPhase = "get"
       /\ hiddenShouldClose
       /\ appThreadStarter("app")
       /\ UNCHANGED appPhase

NextHist ==
    \/ MainLoop
    \/ WindowClose
    \/ HistApp
    \/ AcquireSteps("app")
    \/ SubmitSteps("app")

SpecHist == Init /\ [][NextHist]_vars

(***************************************************************************)
(* Specification 5: the predicted display time.  The application loop of   *)
(* test.cpp asks for the predicted display time, acquires an image and     *)
(* submits it.  The PoseInfo of a frame carries a reading of the clock     *)
(* that is not earlier than the one of the frame before.                   *)
(***************************************************************************)
CallSubmitAt(t, imgs, time) ==
    /\ pc[t] = "idle"
    /\ submitCount < MaxSubmits
    /\ submitCount' = submitCount + 1
    /\ local' = [local EXCEPT
         ![t].submitId = submitCount + 1,
         ![t].submitInfo =
            [pose |-> local[t].pose,
             poseInfo |-> [local[t].poseInfo EXCEPT !.time = time],
             layers |-> [k \in 1..Cardinality(imgs) |->
                           FrameLayer(NONE, SetToSeq(imgs)[k])]]]
    /\ held' = held \ imgs
    /\ pc' = Goto(t, "sub_history")
    /\ UNCHANGED <<locks, swapVars, winVars, frameVars, inputVars, envVars,
                   loopVars, lastFrameSrc, tickSrc, clearTime, drawn, poseCalls, pubKeyTimes>>

PdtApp ==
    \/ /\ appPhase = "get"
       /\ CallGetPredictedDisplayTime("app")
       /\ appPhase' = "acquire"
    \/ /\ appPhase = "acquire"
       /\ submitCount < MaxSubmits
       /\ CallAcquireImage("app")
       /\ appPhase' = "submit"
    \/ /\ appPhase = "submit"
       /\ \E time \in lastFrame.poseInfo.time..MaxTime :
             CallSubmitAt("app", {local["app"].ret}, time)
       /\ appPhase' = "get"

NextPdt ==
    \/ StartReprojection
    \/ PdtApp
    \/ DisplayTimeSteps("app")
    \/ AcquireSteps("app")
    \/ SubmitSteps("app")

SpecPdt == Init /\ [][NextPdt]_vars

(***************************************************************************)
(* Specification 6: the loop of appCallback while the clock advances and   *)
(* keys are pressed and released.                                          *)
(***************************************************************************)
KeysApp ==
    \/ /\ appPhase = "get"
       /\ ~hiddenShouldClose
       /\ submitCount < MaxSubmits
       /\ CallAcquireImage("app")
       /\ appPhase' = "submit"
    \/ /\ appPhase = "submit"
       /\ CallSubmitFrame("app", {local["app"].ret})
       /\ appPhase' = "get"
    \/ /\ appPhase = "get"
       /\ hiddenShouldClose
       /\ appThreadStarter("app")
       /\ UNCHANGED appPhase

NextKeys ==
    \/ MainLoop
    \/ KeyEvents
    \/ WindowClose
    \/ AdvanceTime
    \/ KeysApp
    \/ AcquireSteps("app")
    \/ SubmitSteps("app")

SpecKeys == Init /\ [][NextKeys]_vars

(***************************************************************************)
(* Specification 7: poses.  The application thread asks for the camera     *)
(* pose or for a predicted camera pose again and again while the loop      *)
(* ticks, the clock advances, the mouse moves and keys go down and up.     *)
(***************************************************************************)
\* the display times for which the application asks for a prediction
TargetTimes == {2 * (MaxTime \div 2), 2 * (MaxTime \div 2) + 2}

PoseApp ==
    /\ UNCHANGED appPhase
    /\ \/ ~hiddenShouldClose /\ CallGetCameraPose("app")
       \/ hiddenShouldClose /\ appThreadStarter("app")

PredictApp ==
    /\ UNCHANGED appPhase
    /\ \/ /\ ~hiddenShouldClose
          /\ \E time \in TargetTimes :
                CallGetPredictedCameraPose("app", time)
       \/ hiddenShouldClose /\ appThreadStarter("app")

CameraPoseSteps(t) ==
    \/ GcpLock(t)
    \/ GcpPose(t)
    \/ GcpInfo(t)

PredictedPoseSteps(t) ==
    \/ GppLock(t)
    \/ GppInfo(t)
    \/ GppLockPrediction(t)
    \/ GppSetDt(t)
    \/ GppCall(t)

NextPose ==
    \/ MainLoop
    \/ KeyEvents
    \/ WindowClose
    \/ AdvanceTime
    \/ PoseApp
    \/ CameraPoseSteps("app")

SpecPose == Init /\ [][NextPose]_vars

NextPredict ==
    \/ MainLoop
    \/ KeyEvents
    \/ WindowClose
    \/ AdvanceTime
    \/ MoveCursor
    \/ PredictApp
    \/ PredictedPoseSteps("app")

SpecPredict == Init /\ [][NextPredict]_vars

(***************************************************************************)
(* Specification 8: the loop of appCallback, with an application that may  *)
(* also leave its loop and return although the hidden window is open.      *)
(***************************************************************************)
QuitApp ==
    /\ appPhase = "get"
    /\ ~hiddenShouldClose
    /\ appThreadStarter("app")
    /\ UNCHANGED appPhase

NextQuit ==
    \/ NextAlt
    \/ QuitApp

SpecQuit == Init /\ [][NextQuit]_vars

\* The main thread keeps being scheduled, an event handler that was entered
\* returns, and glfwPollEvents returns after the events that were pending
\* (strong fairness of the loop: events cannot hold it back for ever).
\* Nothing is assumed about the application thread.
SpecQuitFair == SpecQuit /\ SF_vars(MainLoop) /\ WF_vars(HandlerReturns)

(***************************************************************************)
(* Specification 9: the loop of appCallback, with an application that may  *)
(* call shutdown() between two frames.                                     *)
(***************************************************************************)
ShutdownApp ==
    /\ appPhase = "get"
    /\ CallShutdown("app")
    /\ UNCHANGED appPhase

NextShutdown ==
    \/ NextAlt
    \/ ShutdownApp
    \/ ShutdownSteps("app")

SpecShutdown == Init /\ [][NextShutdown]_vars

SpecShutdownFair ==
    SpecShutdown /\ SF_vars(MainLoop) /\ WF_vars(HandlerReturns)
                 /\ SF_vars(AltAppProgress) /\ WF_vars(ShutdownSteps("app"))

(***************************************************************************)
(* Specification 10: drawLayer.  The run starts where the loop has         *)
(* computed the live pose and is about to draw a published frame; the      *)
(* flags of its layers, the position the frame was rendered at and the     *)
(* live position are drawn from all their values.  The application thread  *)
(* is between two frames and does not run.                                 *)
(***************************************************************************)
LayerFlags == {NONE, PARALLAX_ENABLED, CAMERA_LOCKED,
               PARALLAX_ENABLED + CAMERA_LOCKED}

InitDraw ==
    /\ pc = [t \in Threads |-> IF t = "main" THEN "tick_draw" ELSE "idle"]
    /\ locks = [t \in Threads |->
                  IF t = "main" THEN <<"keyTimesMutex", "posesMutex">>
                  ELSE <<>>]
    /\ numImages = MaxImages
    /\ \E n \in 1..MaxLayers :
          /\ index = n % numImages
          /\ acquiredStatus = [i \in 0..(numImages - 1) |->
                                 IF i < n THEN 1 ELSE 0]
          /\ \E fl \in [1..n -> LayerFlags],
                framePosition \in 0..(PoseRange - 1),
                livePosition \in 0..(PoseRange - 1) :
                LET live == [ZeroPose EXCEPT !.position = livePosition]
                IN /\ lastFrame =
                        [pose |-> [ZeroPose EXCEPT !.position = framePosition],
                         poseInfo |-> [ZeroPoseInfo EXCEPT !.realPose = live],
                         layers |-> [k \in 1..n |-> FrameLayer(fl[k], k - 1)]]
                   /\ poseHistory = <<[ZeroPoseInfo EXCEPT !.realPose = live]>>
                   /\ cameraPose = live
                   /\ cameraPoseInfo = [ZeroPoseInfo EXCEPT !.realPose = live]
    /\ notified = {}
    /\ poseFunction = TRUE
    /\ windowShouldClose = FALSE
    /\ hiddenShouldClose = FALSE
    /\ frameValid = TRUE
    /\ cursorCaptured = FALSE
    /\ keyTimes = [k \in Keys |-> 0]
    /\ pressedKeys = {}
    /\ predictedDt = 0
    /\ event = NoEvent
    /\ now = 0
    /\ cursor = [x |-> 0, y |-> 0]
    /\ frameStartTime = 0
    /\ lastFrameDuration = 0
    /\ local = [t \in AppThreads |-> LocalInit]
    /\ held = {}
    /\ appPhase = "get"
    /\ submitCount = 1
    /\ lastFrameSrc = [pose |-> 1, poseInfo |-> 1, layers |-> 1]
    /\ tickSrc = [NoSrc EXCEPT !.poseInfo = 1]
    /\ clearTime = 0
    /\ drawn = <<>>
    /\ poseCalls = <<>>
    /\ pubKeyTimes = <<>>

NextDraw ==
    \/ LoopTop
    \/ TickLockKeyTimes
    \/ TickLockPoses
    \/ TickAccumulate
    \/ TickPose
    \/ TickDraw
    \/ PollDone

SpecDraw == InitDraw /\ [][NextDraw]_vars

(***************************************************************************)
(* Specification 12: the live pose.  The application gets the camera pose  *)
(* and submits a frame without layers, again and again, while the clock    *)
(* advances, the mouse moves and the cursor is captured and released.      *)
(***************************************************************************)
\* captureCursor (lines 278-280)
captureCursor == cursorCaptured' = TRUE

\* releaseCursor (lines 282-284)
releaseCursor == cursorCaptured' = FALSE

\* the callbacks of the application that glfwPollEvents runs: a mouse button
\* or the focus captures the cursor, the escape key releases it
CursorCallbacks ==
    /\ pc["main"] = "poll"
    /\ captureCursor \/ releaseCursor
    /\ cursorCaptured' # cursorCaptured
    /\ UNCHANGED <<appPhase, pc, locks, swapVars, winVars, frameVars, keyTimes,
                   pressedKeys, predictedDt, event, envVars, loopVars,
                   appVars, ghostVars>>

LiveApp ==
    \/ /\ appPhase = "get"
       /\ ~hiddenShouldClose
       /\ submitCount < MaxLiveSubmits
       /\ CallGetCameraPose("app")
       /\ appPhase' = "submit"
    \/ /\ appPhase = "submit"
       /\ CallSubmitFrame("app", {})
       /\ appPhase' = "get"

\* submitFrame for a frame without layers after frames without layers: the
\* loop over lastFrame.layers has nothing to release
SubmitStepsNoLayers(t) ==
    \/ SubHistory(t)
    \/ SubReleaseDone(t)
    \/ SubLockPoses(t)
    \/ SubPubPose(t)
    \/ SubPubInfo(t)
    \/ SubPubLayers(t)
    \/ SubLockKeyTimes(t)
    \/ SubClear(t)
    \/ SubValid(t)

\* the clock as the loop reads it: glfwGetTime at the top of a tick (line
\* 335) is the only reading in this scenario, so the time that passes
\* elsewhere passes here
TickClock == pc["main"] = "loop" /\ AdvanceTime

\* the mouse as the loop reads it: glfwGetCursorPos (line 347) is the only
\* reading in this scenario
TickCursor == pc["main"] = "tick_pose" /\ MoveCursor

\* the window stays open: the loop ticks for ever
NextLive ==
    \/ StartReprojection
    \/ LoopTop
    \/ TickLockKeyTimes
    \/ TickLockPoses
    \/ TickAccumulate
    \/ TickPose
    \/ TickDraw
    \/ PollDone
    \/ TickClock
    \/ TickCursor
    \/ CursorCallbacks
    \/ LiveApp
    \/ SubmitStepsNoLayers("app")
    \/ CameraPoseSteps("app")

\* the swapchain is not used; a pose function is registered
InitLive == Init /\ numImages = 1 /\ poseFunction

SpecLive == InitLive /\ [][NextLive]_vars

(***************************************************************************)
(* Specification 13: the key times.  The application submits frames       *)
(* without layers while keys go down and up and the clock advances between *)
(* the ticks.                                                              *)
(***************************************************************************)
TickApp ==
    /\ UNCHANGED appPhase
    /\ \/ /\ ~hiddenShouldClose
          /\ submitCount < MaxLiveSubmits
          /\ CallSubmitFrame("app", {})
       \/ hiddenShouldClose /\ appThreadStarter("app")

NextTick ==
    \/ MainLoop
    \/ KeyEvents
    \/ WindowClose
    \/ TickClock
    \/ TickApp
    \/ SubmitStepsNoLayers("app")

\* the swapchain is not used; a pose function is registered
InitTick == Init /\ numImages = 1 /\ poseFunction

SpecTick == InitTick /\ [][NextTick]_vars

(***************************************************************************)
(* Specification 14: time stamps.  The application gets the camera pose or *)
(* a predicted camera pose and submits it with a frame without layers,     *)
(* again and again, while the loop ticks and the clock advances.           *)
(***************************************************************************)
TimeApp ==
    \/ /\ appPhase = "get"
       /\ submitCount < MaxLiveSubmits
       /\ \/ CallGetCameraPose("app")
          \/ \E time \in TargetTimes : CallGetPredictedCameraPose("app", time)
       /\ appPhase' = "submit"
    \/ /\ appPhase = "submit"
       /\ CallSubmitFrame("app", {})
       /\ appPhase' = "get"

NextTime ==
    \/ StartReprojection
    \/ LoopTop
    \/ TickLockKeyTimes
    \/ TickLockPoses
    \/ TickAccumulate
    \/ TickPose
    \/ TickDraw
    \/ PollDone
    \/ AdvanceTime
    \/ TimeApp
    \/ SubmitStepsNoLayers("app")
    \/ CameraPoseSteps("app")
    \/ PredictedPoseSteps("app")

SpecTime == InitLive /\ [][NextTime]_vars

(***************************************************************************)
(* Claims                                                                  *)
(***************************************************************************)
\* C1: an image index returned by acquireImage is, at the moment of return,
\* not referenced by any layer of the published lastFrame (the application
\* submits only images it has acquired and not yet submitted).
WriterReaderExclusion ==
    pc["app"] = "acq_ret"
        => local["app"].ret \notin LayerImages(lastFrame)

\* acquireImage returns a slot that an earlier frame had pinned and a later
\* submitFrame released, while the published frame pins another image
WriterReaderExclusionWitness ==
    /\ pc["app"] = "acq_ret"
    /\ submitCount >= 2
    /\ numImages = 2
    /\ local["app"].ret = 0
    /\ LayerImages(lastFrame) = {1}

\* C2: in every reachable state every image referenced by a layer of the
\* published lastFrame has acquiredStatus = 1 (it is not released while its
\* frame is published).
ImageNonRelease ==
    \A i \in LayerImages(lastFrame) : acquiredStatus[i] = 1

\* C3: the pose, the poseInfo and the layer list one tick uses come from
\* the same submission.
FrameAtomicity ==
    \A f, g \in {"pose", "poseInfo", "layers"} :
        (tickSrc[f] # -1 /\ tickSrc[g] # -1) => tickSrc[f] = tickSrc[g]

\* a tick has drawn the whole frame of the first submitFrame while the
\* second submitFrame is waiting for the exchange mutex or past it
FrameAtomicityWitness ==
    /\ pc["main"] = "poll"
    /\ tickSrc = [pose |-> 1, poseInfo |-> 1, layers |-> 1]
    /\ pc["app"] \in {"sub_lock_poses", "sub_pub_pose", "sub_lock_keys"}
    /\ local["app"].submitId = 2

\* the reprojection loop is running
LoopPcs == {"loop", "tick_lock_keys", "tick_lock_poses", "tick_accum",
            "tick_pose", "tick_draw", "poll"}

AcquirePcs == {"acq_check", "acq_lock", "acq_loop", "acq_wait", "acq_take",
               "acq_ret"}

\* inside acquireImage after it found acquiredStatus[index] set
BlockedPcs == {"acq_lock", "acq_loop", "acq_wait"}

Occupancy == Cardinality({i \in Images : acquiredStatus[i] = 1})

\* C4 as stated: with an application that alternates acquireImage and
\* submitFrame at most numImages - 1 images have acquiredStatus = 1.
OccupancyBoundAsStated == Occupancy <= numImages - 1

\* C4 amended: with an application that alternates acquireImage and
\* submitFrame at most 2 images have acquiredStatus = 1 (the one the
\* application holds and the one the published frame holds); that is at
\* most numImages - 1 for swapchains of 3 or more images only.
OccupancyBound ==
    /\ Occupancy <= 2
    /\ numImages >= 3 => Occupancy <= numImages - 1

\* the application holds one image while the published frame holds another
OccupancyBoundWitness ==
    /\ numImages = 3
    /\ pc["app"] = "acq_ret"
    /\ LayerImages(lastFrame) # {}
    /\ Occupancy = 2

\* C5: with numImages >= 2 every acquireImage call of the application loop
\* (acquire, then submit the acquired image) eventually returns.
SwapchainProgress ==
    (numImages >= 2 /\ pc["app"] \in AcquirePcs) ~> (pc["app"] = "idle")

\* the third acquireImage on a swapchain of two returns slot 0 again
SwapchainProgressWitness ==
    /\ numImages = 2
    /\ pc["app"] = "acq_ret"
    /\ submitCount >= 2
    /\ local["app"].ret = 0

\* C6: with numImages = 1 every acquireImage call of the application loop
\* eventually returns, unless the window is closed first.
OneImageSerialized ==
    (numImages = 1 /\ pc["app"] \in AcquirePcs)
        ~> (pc["app"] = "idle" \/ windowShouldClose)

\* C7 as stated: with numImages = 2 an acquireImage that found both images
\* acquired does not return while no submitFrame happens, and once a
\* submitFrame has happened it can return.
BackPressureAsStated ==
    /\ (numImages = 2 /\ held = {0, 1}) => pc["app"] # "acq_take"
    /\ (numImages = 2 /\ pc["app"] \in BlockedPcs /\ submitCount >= 1
           /\ pc["sub"] = "idle")
         => acquiredStatus[index] = 0

\* C7 amended: with numImages = 2 an acquireImage that found the slot
\* `index` acquired leaves its wait only when that slot is free, which takes
\* at least two submitFrame calls (the first one releases only the images of
\* the frame published before it); once the slot is free the acquireImage
\* returns.
BackPressure ==
    /\ [][(numImages = 2 /\ pc["app"] \in BlockedPcs
              /\ pc'["app"] \notin BlockedPcs)
            => (acquiredStatus[index] = 0 /\ submitCount >= 2)]_vars
    /\ (numImages = 2 /\ pc["app"] \in BlockedPcs
           /\ acquiredStatus[index] = 0) ~> (pc["app"] = "acq_ret")

\* the waiting acquireImage has been notified by the second submitFrame
BackPressureWitness ==
    /\ numImages = 2
    /\ pc["app"] = "acq_wait"
    /\ "app" \in notified
    /\ acquiredStatus[index] = 0
    /\ submitCount = 2

\* C8: while the application thread is blocked in acquireImage it holds
\* neither the input nor the exchange mutex and the loop holds no swapchain
\* mutex during a tick; a tick that starts while the application thread is
\* blocked is completed.
LoopNotStalled ==
    /\ [](/\ pc["app"] \in BlockedPcs
               => /\ ~Holds("app", "keyTimesMutex")
                  /\ ~Holds("app", "posesMutex")
                  /\ (pc["main"] \in LoopPcs /\ pc["sub"] = "idle")
                        => ENABLED MainLoop
          /\ pc["main"] \in LoopPcs => ~Holds("main", "mutex"))
    /\ (pc["app"] \in BlockedPcs /\ pc["main"] = "tick_lock_keys")
          ~> (pc["main"] = "poll")

\* the loop is in the middle of a tick, holding both of its mutexes, while
\* the application thread waits on the condition variable
LoopNotStalledWitness ==
    /\ pc["app"] = "acq_wait"
    /\ pc["main"] = "tick_draw"
    /\ frameValid
    /\ Holds("main", "posesMutex")

\* the mutex a thread is about to lock
Wants(t) ==
    CASE pc[t] \in {"tick_lock_keys", "sub_lock_keys"} -> "keyTimesMutex"
      [] pc[t] \in {"tick_lock_poses", "sub_lock_poses", "gcp_lock",
                    "gpp_lock"} -> "posesMutex"
      [] pc[t] = "gpp_lock_pred" -> "predictionMutex"
      [] pc[t] = "acq_lock" -> "mutex"
      [] OTHER -> "none"

Rank(m) ==
    CASE m = "keyTimesMutex" -> 1
      [] m = "posesMutex" -> 2
      [] m = "predictionMutex" -> 3
      [] OTHER -> 4

\* C9: a thread holding several of the mutexes took them in the order
\* input, exchange, prediction; the swapchain mutex is held alone; no two
\* threads wait for a mutex the other one holds.
LockOrdering ==
    /\ \A t \in Threads :
          /\ \A i, j \in DOMAIN locks[t] :
                i < j => Rank(locks[t][i]) < Rank(locks[t][j])
          /\ Holds(t, "mutex") => locks[t] = <<"mutex">>
    /\ \A t, u \in Threads :
          ~(/\ t # u
            /\ Wants(t) # "none" /\ Holds(u, Wants(t))
            /\ Wants(u) # "none" /\ Holds(t, Wants(u)))

\* the loop holds the input mutex and waits for the exchange mutex, which
\* getPredictedCameraPose holds together with the prediction mutex
LockOrderingWitness ==
    /\ pc["main"] = "tick_lock_poses"
    /\ locks["main"] = <<"keyTimesMutex">>
    /\ locks["app"] = <<"posesMutex", "predictionMutex">>

InputAccessPcs == {"tick_accum", "tick_pose", "key_cb", "sub_clear",
                   "gpp_call"}

\* C10: a thread about to read or write pressedKeys or keyTimes holds the
\* input mutex.
InputMutexGuards ==
    \A t \in Threads :
        pc[t] \in InputAccessPcs => Holds(t, "keyTimesMutex")

\* positions at which a thread is about to read or write acquiredStatus or
\* index: lines 224, 226, 232-234 and 256
SwapAccessPcs == {"acq_check", "acq_loop", "acq_take", "sub_rel_body"}

\* C11: a thread about to read or write acquiredStatus or index holds the
\* swapchain mutex.
SwapchainMutexGuards ==
    \A t \in Threads : pc[t] \in SwapAccessPcs => Holds(t, "mutex")

\* C13: the step of acquireImage that takes a slot returns the value of
\* index, sets acquiredStatus of that slot and advances index by one modulo
\* numImages; a call returns the slot after the one the previous call
\* returned, starting with slot 0.
RingSemantics ==
    /\ [][pc'["app"] = "acq_ret" /\ pc["app"] # "acq_ret"
            => /\ acquiredStatus[index] = 0
               /\ local'["app"].ret = index
               /\ acquiredStatus'[index] = 1
               /\ index' = (index + 1) % numImages
               /\ local'["app"].ret =
                     IF local["app"].ret = -1 THEN 0
                     ELSE (local["app"].ret + 1) % numImages]_vars
    /\ [](pc["app"] = "acq_ret"
            => /\ acquiredStatus[local["app"].ret] = 1
               /\ index = (local["app"].ret + 1) % numImages)

\* a swapchain of three has gone round the ring: slot 0 is returned again
RingSemanticsWitness ==
    /\ numImages = 3
    /\ pc["app"] = "acq_ret"
    /\ local["app"].ret = 0
    /\ index = 1
    /\ submitCount >= 2

SubmitPcs == {"sub_history", "sub_release", "sub_rel_body", "sub_lock_poses",
              "sub_pub_pose", "sub_pub_info", "sub_pub_layers",
              "sub_lock_keys", "sub_clear", "sub_valid"}

\* number of submitFrame calls that have returned
SubmitsCompleted ==
    submitCount - Cardinality({t \in AppThreads : pc[t] \in SubmitPcs})

\* C15: frameValid is false until the first submitFrame has run to its end,
\* true from then on, and never set back to false.
FrameValidity ==
    /\ [](frameValid <=> SubmitsCompleted >= 1)
    /\ [][frameValid => frameValid']_vars

\* a second submitFrame is running while frameValid is set
FrameValidityWitness ==
    /\ frameValid
    /\ submitCount = 2
    /\ pc["app"] = "sub_valid"

\* number of submitFrame calls that have appended to poseHistory
SubmitsPushed ==
    submitCount - Cardinality({t \in AppThreads : pc[t] = "sub_history"})

\* C16: poseHistory never holds more than historySize entries, and its
\* entries are the PoseInfo values of the most recent
\* min(k, historySize) of the k submissions, oldest first.
HistoryBound ==
    LET k == SubmitsPushed
        n == IF k < historySize THEN k ELSE historySize
    IN /\ Len(poseHistory) <= historySize
       /\ Len(poseHistory) = n
       /\ \A j \in 1..n : poseHistory[j].time = k - n + j

\* twelve frames were submitted; the history holds the third to the twelfth
HistoryBoundWitness ==
    /\ submitCount = historySize + 2
    /\ pc["app"] = "idle"
    /\ Len(poseHistory) = historySize
    /\ poseHistory[1].time = 3
    /\ poseHistory[historySize].time = historySize + 2

\* positions at which a thread is about to read or write lastFrame,
\* cameraPose or cameraPoseInfo: lines 347-372 (tick), 491-492 and 497
\* (submitFrame), 510-511, 533, 540-557
FrameAccessPcs ==
    {"tick_pose", "tick_draw", "sub_release", "sub_rel_body", "sub_pub_pose",
     "sub_pub_info", "sub_pub_layers", "gcp_pose", "gcp_info", "pdt_ret",
     "gpp_info", "gpp_call"}

\* C12: a thread about to read or write lastFrame, cameraPose or
\* cameraPoseInfo holds the exchange mutex (posesMutex).
ExchangeMutexGuards ==
    \A t \in Threads : pc[t] \in FrameAccessPcs => Holds(t, "posesMutex")

\* the sum of the successive differences of the time stamps of h
RECURSIVE SumOfIntervals(_)
SumOfIntervals(h) ==
    IF Len(h) < 2 THEN 0
    ELSE (h[2].time - h[1].time) + SumOfIntervals(Tail(h))

\* C17: getPredictedDisplayTime returns 1/60 when the pose history has
\* fewer than two entries; otherwise it returns the time stamp of the last
\* submitted frame plus the mean of the successive differences of the time
\* stamps in the history, which is (newest - oldest) / (count - 1); for
\* three frames stamped 0, d, 2d it returns 3d.
PredictedDisplayTime ==
    [][pc["app"] \in {"pdt_size", "pdt_ret"} /\ pc'["app"] = "idle"
         => LET h == poseHistory
                n == Len(h)
                r == local'["app"].displayTime
            IN IF n < 2
               THEN r = [num |-> 1, den |-> 60]
               ELSE /\ lastFrame.poseInfo = h[n]
                    /\ r.den = n - 1
                    /\ r.num = h[n].time * (n - 1) + SumOfIntervals(h)
                    /\ r.num = h[n].time * (n - 1) + (h[n].time - h[1].time)
                    /\ (n = 3 /\ h[1].time = 0 /\ h[3].time = 2 * h[2].time)
                          => r.num = 3 * h[2].time * r.den]_vars

\* frames stamped 0, 2, 4 were submitted and the prediction is 12 / 2 = 6
PredictedDisplayTimeWitness ==
    /\ pc["app"] = "idle"
    /\ appPhase = "acquire"
    /\ Len(poseHistory) = 3
    /\ poseHistory[1].time = 0
    /\ poseHistory[2].time = 2
    /\ poseHistory[3].time = 4
    /\ local["app"].displayTime = [num |-> 12, den |-> 2]

\* C18: at a tick that follows a submitFrame, the key time that the pose
\* function sees for a key does not exceed the time elapsed since that
\* submitFrame cleared keyTimes (a consequence of: it equals the time the
\* key was held since then).
KeyTimeSemantics ==
    (pc["main"] = "tick_pose" /\ clearTime # -1)
        => \A k \in Keys : keyTimeFunction(k) <= now - clearTime

\* C20: getCameraPose returns the pose and the poseInfo that one tick
\* wrote: at its return both are the current cameraPose and cameraPoseInfo,
\* and the realPose of the returned poseInfo is the returned pose.
CameraPoseAtomic ==
    /\ [][pc["app"] = "gcp_info" /\ pc'["app"] = "idle"
            => /\ local'["app"].pose = cameraPose
               /\ local'["app"].poseInfo = cameraPoseInfo
               /\ local'["app"].poseInfo.realPose = local'["app"].pose]_vars
    /\ [](pc["app"] = "idle"
            => local["app"].poseInfo.realPose = local["app"].pose)

\* getCameraPose has returned the pose of a tick that followed a key press,
\* and a later tick has already written another pose
CameraPoseAtomicWitness ==
    /\ pc["app"] = "idle"
    /\ local["app"].pose # ZeroPose
    /\ local["app"].poseInfo.time > 0
    /\ local["app"].poseInfo.realPose = local["app"].pose
    /\ cameraPose # local["app"].pose
    /\ cameraPoseInfo.time > local["app"].poseInfo.time

Returned == pc["main"] \in {"failed", "returned"}
\* the value it returned (lines 298 and 382)
ReturnStatus == IF pc["main"] = "failed" THEN -1 ELSE 0

\* C21: without a registered pose function startReprojection returns a
\* non-zero status and changes nothing: no application thread exists, the
\* loop is not entered and every variable keeps its initial value.
NoPoseFunctionFails ==
    /\ [][(~poseFunction /\ pc["main"] = "start")
             => /\ pc'["main"] = "failed"
                /\ \A t \in AppThreads : pc'[t] = pc[t]
                /\ UNCHANGED <<locks, swapVars, winVars, frameVars, inputVars,
                               envVars, loopVars, appVars, appPhase,
                               ghostVars>>]_vars
    /\ [](~poseFunction
            => /\ pc["main"] \in {"start", "failed"}
               /\ Returned => ReturnStatus # 0
               /\ \A t \in AppThreads : pc[t] = "unborn"
               /\ ~windowShouldClose /\ ~hiddenShouldClose /\ ~frameValid
               /\ lastFrame = EmptyFrame /\ cameraPose = ZeroPose
               /\ cameraPoseInfo = ZeroPoseInfo /\ keyTimes = <<>>)

NoPoseFunctionFailsWitness ==
    ~poseFunction /\ Returned /\ ReturnStatus = -1

\* C22: when the application callback returns, the should-close flag of
\* the on-screen window is set; the loop leaves at its next test of the
\* flag, the application thread is joined and startReprojection returns 0.
ApplicationShutdown ==
    /\ [][(pc["app"] # "done" /\ pc'["app"] = "done")
             => windowShouldClose']_vars
    /\ [](pc["app"] = "done" => windowShouldClose)
    /\ [][(pc["main"] = "loop" /\ windowShouldClose
             /\ pc'["main"] # "loop") => pc'["main"] = "exit"]_vars
    /\ (pc["app"] = "done") ~> (pc["main"] = "returned")
    /\ [](pc["main"] = "returned"
            => pc["app"] = "done" /\ ReturnStatus = 0)

\* the callback has returned by itself while the loop is in a tick
ApplicationShutdownWitness ==
    /\ pc["app"] = "done"
    /\ ~hiddenShouldClose
    /\ pc["main"] = "tick_draw"
    /\ submitCount >= 1

\* C23: once the should-close flag of the on-screen window is set, the
\* loop ends and sets the flag of the hidden window, the application
\* callback, which tests that flag once per iteration, returns, the join
\* completes and startReprojection returns.
WindowCancellation ==
    /\ windowShouldClose ~> hiddenShouldClose
    /\ windowShouldClose ~> (pc["main"] = "returned")

\* C24: a call of shutdown() from the application callback sets the
\* should-close flag and returns to the callback without an exception, and
\* the application thread is joined (by startReprojection, which then
\* returns).
ShutdownReturns ==
    /\ [](pc["app"] \in {"shut_join", "shut_threw"} => windowShouldClose)
    /\ [](pc["app"] # "shut_threw")
    /\ (pc["app"] = "shut_flag") ~> (pc["app"] \in {"idle", "done"})
    /\ (pc["app"] = "shut_flag") ~> (pc["main"] = "returned")

\* C25: a layer is drawn by the parallax path if and only if its flags
\* contain PARALLAX_ENABLED, do not contain CAMERA_LOCKED, and the live
\* camera position differs from the position of the submitted frame; in
\* every other case it is drawn by the default path.  Every layer of the
\* frame is drawn once per tick, the last one first.
DrawPathSelection ==
    pc["main"] = "poll"
       => /\ Len(drawn) = Len(lastFrame.layers)
          /\ \A k \in DOMAIN drawn :
               LET n == drawn[k].layer
                   flags == lastFrame.layers[n].flags
                   parallax ==
                      /\ flags \in {PARALLAX_ENABLED,
                                    PARALLAX_ENABLED + CAMERA_LOCKED}
                      /\ flags \notin {CAMERA_LOCKED,
                                       PARALLAX_ENABLED + CAMERA_LOCKED}
                      /\ cameraPose.position # lastFrame.pose.position
               IN /\ n = Len(drawn) + 1 - k
                  /\ drawn[k].path = IF parallax THEN "parallax" ELSE "default"

\* a frame of two layers, PARALLAX_ENABLED and PARALLAX_ENABLED with
\* CAMERA_LOCKED, drawn from another position: parallax and default path
DrawPathSelectionWitness ==
    /\ pc["main"] = "poll"
    /\ Len(lastFrame.layers) = 2
    /\ lastFrame.layers[1].flags = PARALLAX_ENABLED
    /\ lastFrame.layers[2].flags = PARALLAX_ENABLED + CAMERA_LOCKED
    /\ lastFrame.pose.position # cameraPose.position
    /\ drawn = <<[layer |-> 2, path |-> "default"],
                 [layer |-> 1, path |-> "parallax"]>>

\* the stage of submitFrame a position belongs to: 1 history, 2 release of
\* the images of lastFrame, 3-4 publication under posesMutex, 5-6 clear of
\* keyTimes under keyTimesMutex, 7 frameValid; 0 outside submitFrame
SubmitStage(l) ==
    CASE l = "sub_history" -> 1
      [] l \in {"sub_release", "sub_rel_body"} -> 2
      [] l = "sub_lock_poses" -> 3
      [] l \in {"sub_pub_pose", "sub_pub_info", "sub_pub_layers"} -> 4
      [] l = "sub_lock_keys" -> 5
      [] l = "sub_clear" -> 6
      [] l = "sub_valid" -> 7
      [] OTHER -> 0

\* C26: submitFrame appends to the history, then releases the images of
\* the published lastFrame, then replaces lastFrame under the exchange
\* mutex, then clears keyTimes under the input mutex, then sets frameValid:
\* each effect happens in its stage and the stages follow in this order;
\* all images of the old lastFrame are released before any field of
\* lastFrame is replaced, and submitFrame never holds both mutexes.
SubmitOrder ==
    /\ [][LET a == SubmitStage(pc["app"])
              b == SubmitStage(pc'["app"])
          IN /\ (a # 0 /\ b # 0) => a <= b
             /\ (b # 0 /\ a = 0) => b = 1
             /\ (a # 0 /\ b = 0) => a = 7
             /\ poseHistory' # poseHistory => a = 1
             /\ (\E i \in Images : acquiredStatus[i] = 1
                                     /\ acquiredStatus'[i] = 0) => a = 2
             /\ lastFrame' # lastFrame
                  => a = 4 /\ Holds("app", "posesMutex")
                           /\ ~Holds("app", "keyTimesMutex")
             /\ (pc'["app"] # pc["app"] /\ keyTimes' # keyTimes)
                  => a = 6 /\ keyTimes' = <<>>
                           /\ Holds("app", "keyTimesMutex")
                           /\ ~Holds("app", "posesMutex")
             /\ frameValid' # frameValid => a = 7]_vars
    /\ [](SubmitStage(pc["app"]) \in {3, 4}
            => \A i \in LayerImages(lastFrame) : acquiredStatus[i] = 0)
    /\ [](SubmitStage(pc["app"]) # 0
            => ~(Holds("app", "posesMutex") /\ Holds("app", "keyTimesMutex")))

\* the second submitFrame is about to replace the layers of lastFrame, the
\* image of the first frame is released and the history has two entries
SubmitOrderWitness ==
    /\ pc["app"] = "sub_pub_layers"
    /\ submitCount = 2
    /\ Len(poseHistory) = 2
    /\ lastFrame.layers # <<>>
    /\ \A i \in LayerImages(lastFrame) : acquiredStatus[i] = 0
    /\ frameValid

\* the images in the hands of the application: those it acquired and has
\* not submitted, and those of a frame that a running submitFrame has not
\* published yet
AppImages ==
    held \cup UNION {LayerImages(local[t].submitInfo) :
                       t \in {u \in AppThreads : SubmitStage(pc[u]) \in 1..4}}

Steps(t, from) == pc[t] \in from /\ pc'[t] # pc[t]

\* C28: index is changed only by the step of acquireImage that takes an
\* image, which advances it modulo numImages; releaseImage, resize and the
\* steps of submitFrame leave index unchanged, resize leaves every entry of
\* acquiredStatus unchanged, and releaseImage(i) changes no entry but i.
IndexFrame ==
    [][/\ index' # index
          => \E t \in AppThreads :
                /\ Steps(t, {"acq_take"})
                /\ pc'[t] = "acq_ret"
                /\ local'[t].ret = index
                /\ index' = (index + 1) % numImages
       /\ Steps("main", {"poll", "resize"})
          => /\ index' = index
             /\ acquiredStatus' = acquiredStatus
       /\ \A t \in AppThreads :
            /\ SubmitStage(pc[t]) # 0 /\ pc'[t] # pc[t] => index' = index
            /\ Steps(t, {"sub_rel_body"})
               => \A j \in Images :
                     j # lastFrame.layers[local[t].relIdx].swapchainIndex
                        => acquiredStatus'[j] = acquiredStatus[j]]_vars

\* both images were acquired, so that index is back at 0; a submitFrame has
\* just released image 0 and a resize runs: image 1 stays acquired and index
\* stays where the second acquireImage left it
IndexFrameWitness ==
    /\ pc["sub"] = "sub_release"
    /\ local["sub"].relIdx = 2
    /\ lastFrame.layers[1].swapchainIndex = 0
    /\ index = 0
    /\ held = {1}
    /\ acquiredStatus = [i \in Images |-> IF i = 1 THEN 1 ELSE 0]
    /\ pc["main"] = "resize"

\* C29: the tick measures the time since the previous reading of the clock
\* (the previous tick, or the start of the loop) and adds it to the time of
\* every key that is in pressedKeys, leaving the time of every other key
\* unchanged; the pose function reads keyTimes[k] for a key, and 0 where
\* there is no entry; the clear of submitFrame puts every key's time at 0.
TickAccumulation ==
    [][/\ Steps("main", {"loop"}) /\ pc'["main"] = "tick_lock_keys"
          => /\ lastFrameDuration' = now - frameStartTime
             /\ frameStartTime' = now
       /\ (frameStartTime' # frameStartTime
             \/ lastFrameDuration' # lastFrameDuration)
          => Steps("main", {"start", "loop"})
       /\ Steps("main", {"tick_accum"})
          => \A k \in Keys :
                keyTimeFunction(k)'
                   = keyTimeFunction(k)
                     + (IF k \in pressedKeys THEN lastFrameDuration ELSE 0)
       /\ Steps("main", {"tick_pose"})
          => cameraPose'.position
                = (lastFrame.poseInfo.realPose.position
                   + SumOver(Keys, [k \in Keys |->
                                     IF k \in DOMAIN keyTimes
                                     THEN keyTimes[k] ELSE 0])) % PoseRange
       /\ \A t \in AppThreads :
             Steps(t, {"sub_clear"})
                => \A k \in Keys : keyTimeFunction(k)' = 0]_vars

\* after a submitFrame cleared the key times, two ticks, each two units of
\* time after the previous one, have added their durations to a pressed key
TickAccumulationWitness ==
    /\ pc["main"] = "tick_pose"
    /\ submitCount >= 1
    /\ 1 \in pressedKeys
    /\ lastFrameDuration = 2
    /\ keyTimeFunction(1) = 4

\* C30: a tick calls the pose function once, with the realPose of
\* lastFrame.poseInfo as the base, with the difference between the cursor and
\* lastFrame.poseInfo as dx and dy when the cursor is captured and 0 for both
\* when it is not, and with dt the time of the tick minus the time of
\* lastFrame.poseInfo; cameraPose becomes the pose that the call returns and
\* cameraPoseInfo.realPose is that pose; nothing else in the loop calls the
\* pose function or writes cameraPose.
LivePose ==
    /\ [][ /\ Steps("main", {"tick_pose"})
              => (LET info == lastFrame.poseInfo
                     call == [base |-> info.realPose,
                              dx |-> IF cursorCaptured
                                     THEN cursor.x - info.mouseX ELSE 0,
                              dy |-> IF cursorCaptured
                                     THEN cursor.y - info.mouseY ELSE 0,
                              dt |-> frameStartTime - info.time]
                 IN /\ poseCalls' = Append(poseCalls, call)
                    /\ cameraPose'
                          = PoseFunction(call.base, call.dx, call.dy, call.dt,
                                         [k \in Keys |-> keyTimeFunction(k)])
                    /\ cameraPoseInfo'.realPose = cameraPose')
           /\ Steps("main", {"poll"}) /\ pc'["main"] = "loop"
              => Len(poseCalls) = 1
           /\ (cameraPose' # cameraPose \/ Len(poseCalls') > Len(poseCalls))
              => Steps("main", {"start", "tick_pose"})]_vars
    /\ [](Len(poseCalls) = 1 => cameraPoseInfo.realPose = cameraPose)

\* a tick two units of time after the pose of the published frame was
\* taken, with the cursor captured and moved by two since then: the pose
\* function got dx = 2 and dt = 2 and the camera has turned by dx
LivePoseWitness ==
    /\ pc["main"] = "tick_draw"
    /\ submitCount >= 1
    /\ cursorCaptured
    /\ Len(poseCalls) = 1
    /\ poseCalls[1].dx = 2
    /\ poseCalls[1].dt = 2
    /\ cameraPose.orientation = (lastFrame.poseInfo.realPose.orientation + 2)
                                    % PoseRange

\* C31: the time stamps in the pose history never decrease from one entry
\* to the next, and the dt that a tick hands to the pose function is never
\* negative: the time of the tick is not before the time of the published
\* frame.
TimeOrdering ==
    /\ \A k \in 1..(Len(poseHistory) - 1) :
          poseHistory[k].time <= poseHistory[k + 1].time
    /\ \A k \in DOMAIN poseCalls : poseCalls[k].dt >= 0
    /\ pc["main"] \in {"tick_lock_keys", "tick_lock_poses", "tick_accum",
                       "tick_pose"}
          => frameStartTime >= lastFrame.poseInfo.time

\* two frames were submitted with poses taken at different ticks, and a
\* later tick computes the live pose from the second one
TimeOrderingWitness ==
    /\ Len(poseHistory) = 2
    /\ poseHistory[1].time < poseHistory[2].time
    /\ lastFrame.poseInfo = poseHistory[2]
    /\ Len(poseCalls) = 1
    /\ poseCalls[1].dt > 0

\* C32: no tick computes the live pose from the poseInfo of a newly
\* published lastFrame together with key times that were accumulated before
\* that publication: for a tick, the replacement of lastFrame and the clear
\* of keyTimes are one step.
NoStaleKeyTimes ==
    (pc["main"] = "tick_draw" /\ tickSrc.poseInfo = lastFrameSrc.poseInfo)
        => \A k \in DOMAIN pubKeyTimes : pubKeyTimes[k] = 0

\* C33: an entry of acquiredStatus goes from 1 to 0 only in the step of
\* submitFrame that calls releaseImage for a layer of the frame that is
\* being replaced; no step of the reprojection loop clears one; a thread
\* that waits in acquireImage is notified, and sees its slot become free,
\* only by such a step of another thread.
ReleaseOnlyInSubmit ==
    [][/\ \A i \in Images :
             (acquiredStatus[i] = 1 /\ acquiredStatus'[i] = 0)
                => /\ pc'["main"] = pc["main"]
                   /\ \E u \in AppThreads :
                         /\ Steps(u, {"sub_rel_body"})
                         /\ local[u].relIdx \in DOMAIN lastFrame.layers
                         /\ lastFrame.layers[local[u].relIdx].swapchainIndex = i
       /\ \A t \in AppThreads :
             (/\ pc[t] \in {"acq_lock", "acq_loop", "acq_wait"}
              /\ \/ t \in notified' \ notified
                 \/ acquiredStatus[index] = 1 /\ acquiredStatus'[index] = 0)
                => \E u \in AppThreads \ {t} :
                      Steps(u, {"sub_rel_body"})]_vars

\* a thread waits in acquireImage and the submitFrame of the other thread
\* has just released the slot it waits for and notified it
ReleaseOnlyInSubmitWitness ==
    /\ pc["app"] = "acq_wait"
    /\ "app" \in notified
    /\ acquiredStatus[index] = 0
    /\ SubmitStage(pc["sub"]) = 2

\* the positions of acquireImage before it takes an image: before the first
\* test, between that test and the lock, under the lock, in cond.wait
BeforeTakePcs == {"acq_check", "acq_lock", "acq_loop", "acq_wait"}

\* C34: when acquireImage is at any position before it takes slot `index`,
\* the slot being acquired, and the other thread is about to release, or is
\* releasing, that slot, the acquireImage eventually returns, and the slot
\* it returns is that one: index does not move before the image is taken
\* and the image taken is the one at index.
NoLostWakeup ==
    /\ [][ /\ pc["app"] \in BeforeTakePcs => index' = index
           /\ (pc["app"] = "acq_take" /\ pc'["app"] = "acq_ret")
                 => local'["app"].ret = index]_vars
    /\ (/\ pc["app"] \in BeforeTakePcs
        /\ acquiredStatus[index] = 1
        /\ pc["sub"] \in {"sub_release", "sub_rel_body"}
        /\ local["sub"].relIdx \in DOMAIN lastFrame.layers
        /\ lastFrame.layers[local["sub"].relIdx].swapchainIndex = index)
          ~> (pc["app"] = "acq_ret")

\* an acquireImage that was waiting in cond.wait when the other thread
\* released its slot has been notified, has locked the mutex again and is
\* back at the test of the loop
NoLostWakeupWitness ==
    /\ pc["app"] = "acq_loop"
    /\ Holds("app", "mutex")
    /\ acquiredStatus[index] = 0
    /\ submitCount >= 2
    /\ SubmitStage(pc["sub"]) >= 2

====
